---------------------------- MODULE Spec2Model ----------------------------
(***************************************************************************)
(* A model of the CHIP-8 interpreter of go-acht                            *)
(* (internal/chip8/chip8.go): the machine state, the decoder, the          *)
(* instruction handlers, the cycle engine and the run loop of Run.         *)
(*                                                                         *)
(* The machine is one record, c8, with the fields of the Chip8 struct.     *)
(* fetch, decodeOpcode, cycle and the handlers are operators from machine  *)
(* to machine, composed as the code composes them.  An index expression    *)
(* that is out of range makes the Go runtime panic: the operators then     *)
(* return the machine as it was at that point with panicked = TRUE.        *)
(***************************************************************************)
EXTENDS Integers, Sequences, FiniteSets, TLC

VARIABLES
    c8,        \* the Chip8 struct
    rom,       \* the file at romPath: [readable, data]
    phase,     \* position of Run: "idle", "loop", "returned", "panic";
               \* of a direct call of decodeOpcode: "decode", "decoded";
               \* of a direct call of cycle: "exec", "again", "done"
    err,       \* what Run returned: "none" (not returned), "nil", "error"
    activity,  \* the case of the select that ran last:
               \* "none", "sound", "delay", "video", "clock"
    polled,    \* what the last PollKeys returned: [keyPad, quit]
    decoded,   \* what the last decodeOpcode returned
    screen,    \* the frame last handed to Renderer.Draw
    dt,        \* history of the delay timer: [written, set, ticks]
    calls,     \* history of the calls not yet returned from: the addresses
               \* their 2NNN instructions were fetched at, oldest first
    start      \* the machine the behaviour started with

vars ==
    <<c8, rom, phase, err, activity, polled, decoded, screen, dt, calls, start>>

---------------------------------------------------------------------------
(* Program constants *)

startAddress == \h200
fontStartAddress == \h50
displayWidth == 64
displayHeight == 32
memorySize == 4096
stackSize == 16

fontSet ==
    << \hF0, \h90, \h90, \h90, \hF0,
       \h20, \h60, \h20, \h20, \h70,
       \hF0, \h10, \hF0, \h80, \hF0,
       \hF0, \h10, \hF0, \h10, \hF0,
       \h90, \h90, \hF0, \h10, \h10,
       \hF0, \h80, \hF0, \h10, \hF0,
       \hF0, \h80, \hF0, \h90, \hF0,
       \hF0, \h10, \h20, \h40, \h40,
       \hF0, \h90, \hF0, \h90, \hF0,
       \hF0, \h90, \hF0, \h10, \hF0,
       \hF0, \h90, \hF0, \h90, \h90,
       \hE0, \h90, \hE0, \h90, \hE0,
       \hF0, \h80, \h80, \h80, \hF0,
       \hE0, \h90, \hE0, \h90, \hE0,
       \hF0, \h80, \hF0, \h80, \hF0,
       \hF0, \h80, \hF0, \h80, \h80 >>

---------------------------------------------------------------------------
(* Fixed-width unsigned arithmetic and the bit operators of Go *)

U8(n) == n % 256
U16(n) == n % 65536

RECURSIVE BitAnd(_, _)
BitAnd(a, b) ==
    IF a = 0 \/ b = 0 THEN 0
    ELSE (a % 2) * (b % 2) + 2 * BitAnd(a \div 2, b \div 2)

RECURSIVE BitOr(_, _)
BitOr(a, b) ==
    IF a = 0 THEN b
    ELSE IF b = 0 THEN a
    ELSE (IF a % 2 = 1 \/ b % 2 = 1 THEN 1 ELSE 0) + 2 * BitOr(a \div 2, b \div 2)

RECURSIVE BitXor(_, _)
BitXor(a, b) ==
    IF a = 0 THEN b
    ELSE IF b = 0 THEN a
    ELSE ((a + b) % 2) + 2 * BitXor(a \div 2, b \div 2)

RECURSIVE Pow2(_)
Pow2(n) == IF n = 0 THEN 1 ELSE 2 * Pow2(n - 1)

Shr(a, n) == a \div Pow2(n)
Shl8(a, n) == U8(a * Pow2(n))
Shl16(a, n) == U16(a * Pow2(n))

---------------------------------------------------------------------------
(* The machine *)

\* The [32][64]bool frame buffer is held as the set of its true cells:
\* cell (row, col) is true exactly when <<row, col>> is in the set.
blankDisplay == {}

Lit(d, row, col) == <<row, col>> \in d

Toggle(d, row, col) ==
    IF <<row, col>> \in d THEN d \ {<<row, col>>} ELSE d \cup {<<row, col>>}

\* The [4096]uint8 memory is held as the function from the addresses of its
\* nonzero cells to their values: every other cell of 0 .. 4095 reads 0.
zeroMemory == [a \in {} |-> 0]

MemRead(mem, a) == IF a \in DOMAIN mem THEN mem[a] ELSE 0

MemWrite(mem, a, v) ==
    IF v = 0 THEN [x \in DOMAIN mem \ {a} |-> mem[x]]
    ELSE [x \in DOMAIN mem \cup {a} |-> IF x = a THEN v ELSE mem[x]]

\* Chip8{}: the zero value of the struct
zeroChip8 ==
    [ registers      |-> [i \in 0 .. 15 |-> 0],
      memory         |-> zeroMemory,
      programCounter |-> 0,
      indexRegister  |-> 0,
      callStack      |-> [i \in 0 .. stackSize - 1 |-> 0],
      stackPointer   |-> 0,
      opcode         |-> 0,
      keyPad         |-> [k \in 0 .. 15 |-> 0],
      delayTimer     |-> 0,
      soundTimer     |-> 0,
      display        |-> blankDisplay,
      running        |-> FALSE,
      panicked       |-> FALSE ]

Panic(c) == [c EXCEPT !.panicked = TRUE]

\* Operand fields of the opcode, as the handlers extract them
OpX(c) == Shr(BitAnd(c.opcode, \h0F00), 8)
OpY(c) == Shr(BitAnd(c.opcode, \h00F0), 4)
OpN(c) == BitAnd(c.opcode, \h000F)
OpKK(c) == BitAnd(c.opcode, \h00FF)
OpNNN(c) == BitAnd(c.opcode, \h0FFF)

---------------------------------------------------------------------------
(* Loading and initialisation *)

\* copy(c8.memory[startAddress:], data)
CopyInto(mem, base, data) ==
    LET n == IF Len(data) < memorySize - base THEN Len(data) ELSE memorySize - base
        covered == base .. base + n - 1
        nonzero == {a \in covered : data[a - base + 1] # 0}
    IN  [a \in (DOMAIN mem \ covered) \cup nonzero |->
            IF a \in covered THEN data[a - base + 1] ELSE mem[a]]

\* the size check refusing an image that fills the program area exactly
loadRomErrAtLimit(file) ==
    IF ~file.readable THEN TRUE
    ELSE Len(file.data) >= memorySize - startAddress

\* loadRom: the machine after the call and the error it returns
loadRomErr(file) ==
    IF ~file.readable THEN TRUE
    ELSE Len(file.data) > memorySize - startAddress

loadRom(c, file) ==
    IF loadRomErr(file) THEN c
    ELSE [c EXCEPT !.memory = CopyInto(c.memory, startAddress, file.data)]

\* init copying the font set to the start of memory
initFontAtZero(c) ==
    [c EXCEPT !.programCounter = startAddress,
              !.memory = CopyInto(c.memory, 0, fontSet),
              !.running = TRUE]

\* init (scaleFactor and colorProfile only configure the presentation)
init(c) ==
    [c EXCEPT !.programCounter = startAddress,
              !.memory = CopyInto(c.memory, fontStartAddress, fontSet),
              !.running = TRUE]

Running(c) == c.running

---------------------------------------------------------------------------
(* Decoder and dispatch table *)

\* decodeOpcode with the 0x8 family masked like the 0xE and 0xF families
decodeOpcodeWideMask(c) ==
    LET family == BitAnd(c.opcode, \hF000) IN
    IF family = \h0000 THEN BitAnd(c.opcode, \h00FF)
    ELSE IF family \in {\h8000, \hE000, \hF000} THEN BitAnd(c.opcode, \hF0FF)
    ELSE BitAnd(c.opcode, \hF000)

\* a decoder that keeps the bits the family masks discard: the nibble N of
\* 0Nkk and the low nibble of 5XYn and 9XYn
decodeOpcodeKeepsAll(c) ==
    LET family == BitAnd(c.opcode, \hF000) IN
    IF family = \h0000 THEN BitAnd(c.opcode, \h0FFF)
    ELSE IF family \in {\h5000, \h8000, \h9000} THEN BitAnd(c.opcode, \hF00F)
    ELSE IF family \in {\hE000, \hF000} THEN BitAnd(c.opcode, \hF0FF)
    ELSE BitAnd(c.opcode, \hF000)

decodeOpcode(c) ==
    LET family == BitAnd(c.opcode, \hF000) IN
    IF family = \h0000 THEN BitAnd(c.opcode, \h00FF)
    ELSE IF family = \h8000 THEN BitAnd(c.opcode, \hF00F)
    ELSE IF family \in {\hE000, \hF000} THEN BitAnd(c.opcode, \hF0FF)
    ELSE BitAnd(c.opcode, \hF000)

dispatchTable ==
    ( \h00E0 :> "op00E0" ) @@ ( \h00EE :> "op00EE" ) @@
    ( \h1000 :> "op1NNN" ) @@ ( \h2000 :> "op2NNN" ) @@
    ( \h3000 :> "op3XKK" ) @@ ( \h4000 :> "op4XKK" ) @@
    ( \h5000 :> "op5XY0" ) @@ ( \h6000 :> "op6XKK" ) @@
    ( \h7000 :> "op7XKK" ) @@ ( \h8000 :> "op8XY0" ) @@
    ( \h8001 :> "op8XY1" ) @@ ( \h8002 :> "op8XY2" ) @@
    ( \h8003 :> "op8XY3" ) @@ ( \h8004 :> "op8XY4" ) @@
    ( \h8005 :> "op8XY5" ) @@ ( \h8006 :> "op8XY6" ) @@
    ( \h8007 :> "op8XY7" ) @@ ( \h800E :> "op8XYE" ) @@
    ( \h9000 :> "op9XY0" ) @@ ( \hA000 :> "opANNN" ) @@
    ( \hB000 :> "opBNNN" ) @@ ( \hC000 :> "opCXKK" ) @@
    ( \hD000 :> "opDXYN" ) @@ ( \hE09E :> "opEX9E" ) @@
    ( \hE0A1 :> "opEXA1" ) @@ ( \hF007 :> "opFX07" ) @@
    ( \hF00A :> "opFX0A" ) @@ ( \hF015 :> "opFX15" ) @@
    ( \hF018 :> "opFX18" ) @@ ( \hF01E :> "opFX1E" ) @@
    ( \hF029 :> "opFX29" ) @@ ( \hF033 :> "opFX33" ) @@
    ( \hF055 :> "opFX55" ) @@ ( \hF065 :> "opFX65" )

\* dispatchTable[key]: the handler's name, or "nil" when the map has no entry
Lookup(key) == IF key \in DOMAIN dispatchTable THEN dispatchTable[key] ELSE "nil"


---------------------------------------------------------------------------
(* Instruction set.  Every handler runs on the machine after fetch and    *)
(* after programCounter += 2.                                              *)

Skip(c) == [c EXCEPT !.programCounter = U16(@ + 2)]

SetReg(c, r, v) == [c EXCEPT !.registers[r] = v]

\* 00E0 that clears the first row only
op00E0FirstRow(c) ==
    [c EXCEPT !.display = { cell \in @ : cell[1] # 0 }]

op00E0(c) == [c EXCEPT !.display = blankDisplay]

\* a return that reads at the pointer position before it decrements
op00EEReadFirst(c) ==
    IF c.stackPointer >= stackSize THEN Panic(c)
    ELSE [c EXCEPT !.programCounter = c.callStack[c.stackPointer],
                   !.stackPointer = U8(@ - 1)]

op00EE(c) ==
    LET sp == U8(c.stackPointer - 1)
        d  == [c EXCEPT !.stackPointer = sp]
    IN  IF sp >= stackSize THEN Panic(d)
        ELSE [d EXCEPT !.programCounter = c.callStack[sp]]

op1NNN(c) == [c EXCEPT !.programCounter = OpNNN(c)]

\* a call that increments stackPointer before it writes the return address
op2NNNIncrementFirst(c) ==
    LET sp == U8(c.stackPointer + 1) IN
    IF sp >= stackSize THEN Panic([c EXCEPT !.stackPointer = sp])
    ELSE [c EXCEPT !.stackPointer = sp,
                   !.callStack[sp] = c.programCounter,
                   !.programCounter = OpNNN(c)]

op2NNN(c) ==
    IF c.stackPointer >= stackSize THEN Panic(c)
    ELSE [c EXCEPT !.callStack[c.stackPointer] = c.programCounter,
                   !.stackPointer = U8(@ + 1),
                   !.programCounter = OpNNN(c)]

op3XKK(c) == IF c.registers[OpX(c)] = OpKK(c) THEN Skip(c) ELSE c

\* 4XKK skipping on equality
op4XKKOnEqual(c) == IF c.registers[OpX(c)] = OpKK(c) THEN Skip(c) ELSE c

op4XKK(c) == IF c.registers[OpX(c)] # OpKK(c) THEN Skip(c) ELSE c

op5XY0(c) == IF c.registers[OpX(c)] = c.registers[OpY(c)] THEN Skip(c) ELSE c

\* 6XKK that keeps the bits VX already has
op6XKKKeepBits(c) == SetReg(c, OpX(c), BitOr(c.registers[OpX(c)], OpKK(c)))

op6XKK(c) == SetReg(c, OpX(c), OpKK(c))

\* 7XKK that reports the carry in VF
op7XKKCarry(c) ==
    LET sum == c.registers[OpX(c)] + OpKK(c)
        f == SetReg(c, 15, IF sum > 255 THEN 1 ELSE 0)
    IN  SetReg(f, OpX(c), U8(sum))

op7XKK(c) == SetReg(c, OpX(c), U8(c.registers[OpX(c)] + OpKK(c)))

op8XY0(c) == SetReg(c, OpX(c), c.registers[OpY(c)])

op8XY1(c) == SetReg(c, OpX(c), BitOr(c.registers[OpX(c)], c.registers[OpY(c)]))

op8XY2(c) == SetReg(c, OpX(c), BitAnd(c.registers[OpX(c)], c.registers[OpY(c)]))

op8XY3(c) == SetReg(c, OpX(c), BitXor(c.registers[OpX(c)], c.registers[OpY(c)]))

\* 8XY4 that carries from 255 on
op8XY4CarryAt255(c) ==
    LET result == c.registers[OpX(c)] + c.registers[OpY(c)]
        f == SetReg(c, 15, IF result >= 255 THEN 1 ELSE 0)
    IN  SetReg(f, OpX(c), BitAnd(result, \hFF))

\* The flag is written first, then VX: with X = 0xF the result overwrites it.
op8XY4(c) ==
    LET result == c.registers[OpX(c)] + c.registers[OpY(c)]
        f == SetReg(c, 15, IF result > 255 THEN 1 ELSE 0)
    IN  SetReg(f, OpX(c), BitAnd(result, \hFF))

op8XY5(c) ==
    LET f == SetReg(c, 15, IF c.registers[OpX(c)] > c.registers[OpY(c)] THEN 1 ELSE 0)
    IN  SetReg(f, OpX(c), U8(f.registers[OpX(c)] - f.registers[OpY(c)]))

\* 8XY6 that shifts VY into VX
op8XY6FromVY(c) ==
    LET f == SetReg(c, 15, BitAnd(c.registers[OpY(c)], 1))
    IN  SetReg(f, OpX(c), Shr(c.registers[OpY(c)], 1))

op8XY6(c) ==
    LET f == SetReg(c, 15, BitAnd(c.registers[OpX(c)], 1))
    IN  SetReg(f, OpX(c), Shr(f.registers[OpX(c)], 1))

op8XY7(c) ==
    LET f == SetReg(c, 15, IF c.registers[OpY(c)] > c.registers[OpX(c)] THEN 1 ELSE 0)
    IN  SetReg(f, OpX(c), U8(f.registers[OpY(c)] - f.registers[OpX(c)]))

\* 8XYE with the flag grouped as registers[vx] & (0x80 >> 7)
op8XYEShiftFirst(c) ==
    LET f == SetReg(c, 15, BitAnd(c.registers[OpX(c)], Shr(\h80, 7)))
    IN  SetReg(f, OpX(c), Shl8(f.registers[OpX(c)], 1))

\* registers[vx] & 0x80 >> 7 groups as (registers[vx] & 0x80) >> 7 in Go
op8XYE(c) ==
    LET f == SetReg(c, 15, Shr(BitAnd(c.registers[OpX(c)], \h80), 7))
    IN  SetReg(f, OpX(c), Shl8(f.registers[OpX(c)], 1))

op9XY0(c) == IF c.registers[OpX(c)] # c.registers[OpY(c)] THEN Skip(c) ELSE c

opANNN(c) == [c EXCEPT !.indexRegister = OpNNN(c)]

opBNNN(c) == [c EXCEPT !.programCounter = c.registers[0] + OpNNN(c)]

\* rnd is the value of rand.Intn(256)
opCXKK(c, rnd) == SetReg(c, OpX(c), BitAnd(U8(rnd), OpKK(c)))

\* a sprite bit that sets its cell instead of toggling it
DrawBitSet(c, xPos, yPos, pixel, j, i) ==
    IF BitAnd(pixel, Shr(\h80, i)) # 0
    THEN LET row == U8(yPos + U8(j)) % displayHeight
             col == U8(xPos + U8(i)) % displayWidth
             f == IF Lit(c.display, row, col) = TRUE THEN SetReg(c, 15, 1) ELSE c
         IN  [f EXCEPT !.display = c.display \cup {<<row, col>>}]
    ELSE c

\* a sprite bit that is dropped where the row runs over the right edge
DrawBitClip(c, xPos, yPos, pixel, j, i) ==
    IF BitAnd(pixel, Shr(\h80, i)) # 0 /\ (xPos % displayWidth) + i < displayWidth
    THEN LET row == U8(yPos + U8(j)) % displayHeight
             col == U8(xPos + U8(i)) % displayWidth
             f == IF Lit(c.display, row, col) = TRUE THEN SetReg(c, 15, 1) ELSE c
         IN  [f EXCEPT !.display = Toggle(c.display, row, col)]
    ELSE c

\* One sprite bit: column i of row j
DrawBit(c, xPos, yPos, pixel, j, i) ==
    IF BitAnd(pixel, Shr(\h80, i)) # 0
    THEN LET row == U8(yPos + U8(j)) % displayHeight
             col == U8(xPos + U8(i)) % displayWidth
             f == IF Lit(c.display, row, col) = TRUE THEN SetReg(c, 15, 1) ELSE c
         IN  [f EXCEPT !.display = Toggle(c.display, row, col)]
    ELSE c

RECURSIVE DrawRow(_, _, _, _, _, _)
DrawRow(c, xPos, yPos, pixel, j, i) ==
    IF i >= 8 THEN c
    ELSE DrawRow(DrawBit(c, xPos, yPos, pixel, j, i), xPos, yPos, pixel, j, i + 1)

RECURSIVE DrawRows(_, _, _, _, _)
DrawRows(c, xPos, yPos, height, j) ==
    IF j >= height THEN c
    ELSE IF U16(c.indexRegister + j) >= memorySize THEN Panic(c)
    ELSE DrawRows(DrawRow(c, xPos, yPos, MemRead(c.memory, U16(c.indexRegister + j)), j, 0),
                  xPos, yPos, height, j + 1)

\* DXYN that leaves VF as it finds it when nothing collides
opDXYNKeepFlag(c) ==
    DrawRows(c, c.registers[OpX(c)], c.registers[OpY(c)], OpN(c), 0)

\* xPos, yPos are read before VF is reset
opDXYN(c) ==
    DrawRows(SetReg(c, 15, 0), c.registers[OpX(c)], c.registers[OpY(c)], OpN(c), 0)

opEX9E(c) ==
    LET key == c.registers[OpX(c)] IN
    IF key >= 16 THEN Panic(c)
    ELSE IF c.keyPad[key] = 1 THEN Skip(c) ELSE c

\* EXA1 skipping when the key is down
opEXA1OnPressed(c) ==
    LET key == c.registers[OpX(c)] IN
    IF key >= 16 THEN Panic(c)
    ELSE IF c.keyPad[key] = 1 THEN Skip(c) ELSE c

opEXA1(c) ==
    LET key == c.registers[OpX(c)] IN
    IF key >= 16 THEN Panic(c)
    ELSE IF c.keyPad[key] = 0 THEN Skip(c) ELSE c

\* FX07 that takes one from the delay timer it has read
opFX07Consumes(c) ==
    [SetReg(c, OpX(c), c.delayTimer) EXCEPT
        !.delayTimer = IF @ > 0 THEN @ - 1 ELSE @]

opFX07(c) == SetReg(c, OpX(c), c.delayTimer)

\* a scan that stops at the first pressed key
RECURSIVE ScanKeysFirst(_, _, _)
ScanKeysFirst(c, vx, key) ==
    IF key >= 16 THEN c
    ELSE IF c.keyPad[key] # 0 THEN SetReg(c, vx, key)
    ELSE ScanKeysFirst(c, vx, key + 1)

\* for key := range c8.keyPad: ascending, every pressed key overwrites VX
RECURSIVE ScanKeys(_, _, _)
ScanKeys(c, vx, key) ==
    IF key >= 16 THEN c
    ELSE ScanKeys(IF c.keyPad[key] # 0 THEN SetReg(c, vx, key) ELSE c, vx, key + 1)

\* FX0A without the step back
opFX0ANoRewind(c) == ScanKeys(c, OpX(c), 0)

\* FX0A that releases the key it has stored
opFX0AReleases(c) ==
    LET pressed == \E key \in 0 .. 15 : c.keyPad[key] # 0
        d == ScanKeys(c, OpX(c), 0)
    IN  IF ~pressed THEN [d EXCEPT !.programCounter = U16(@ - 2)]
        ELSE [d EXCEPT !.keyPad[d.registers[OpX(c)]] = 0]

opFX0A(c) ==
    LET pressed == \E key \in 0 .. 15 : c.keyPad[key] # 0
        d == ScanKeys(c, OpX(c), 0)
    IN  IF ~pressed THEN [d EXCEPT !.programCounter = U16(@ - 2)] ELSE d

opFX15(c) == [c EXCEPT !.delayTimer = c.registers[OpX(c)]]

opFX18(c) == [c EXCEPT !.soundTimer = c.registers[OpX(c)]]

opFX1E(c) == [c EXCEPT !.indexRegister = U16(@ + c.registers[OpX(c)])]

\* 5 * digit is a uint8 product
opFX29(c) ==
    [c EXCEPT !.indexRegister = U16(fontStartAddress + U8(5 * c.registers[OpX(c)]))]

\* c8.memory[addr] = v, or the panic of an index out of range
Store(c, addr, v) ==
    IF c.panicked THEN c
    ELSE IF addr >= memorySize THEN Panic(c)
    ELSE [c EXCEPT !.memory = MemWrite(@, addr, v)]

\* opFX33 with the ones digit at I and the hundreds digit at I + 2
opFX33OnesFirst(c) ==
    LET value == c.registers[OpX(c)]
        c1 == Store(c, U16(c.indexRegister + 2), ((value \div 10) \div 10) % 10)
        c2 == Store(c1, U16(c.indexRegister + 1), (value \div 10) % 10)
    IN  Store(c2, c.indexRegister, value % 10)

opFX33(c) ==
    LET value == c.registers[OpX(c)]
        c1 == Store(c, U16(c.indexRegister + 2), value % 10)
        c2 == Store(c1, U16(c.indexRegister + 1), (value \div 10) % 10)
    IN  Store(c2, c.indexRegister, ((value \div 10) \div 10) % 10)

RECURSIVE DumpRegs(_, _, _)
DumpRegs(c, vx, i) ==
    IF i > vx \/ c.panicked THEN c
    ELSE DumpRegs(Store(c, U16(c.indexRegister + i), c.registers[i]), vx, i + 1)

\* opFX55 with the index register moved past the cells it has written
opFX55AdvanceIndex(c) ==
    LET d == DumpRegs(c, OpX(c), 0) IN
    IF d.panicked THEN d
    ELSE [d EXCEPT !.indexRegister = U16(c.indexRegister + OpX(c) + 1)]

opFX55(c) ==
    LET d == DumpRegs(c, OpX(c), 0) IN
    IF d.panicked THEN d
    ELSE [d EXCEPT !.indexRegister = Shr(BitAnd(c.opcode, \h0F00), 8) + 1]

RECURSIVE LoadRegs(_, _, _)
LoadRegs(c, vx, i) ==
    IF i > vx THEN c
    ELSE IF U16(c.indexRegister + i) >= memorySize THEN Panic(c)
    ELSE LoadRegs(SetReg(c, i, MemRead(c.memory, U16(c.indexRegister + i))), vx, i + 1)

opFX65(c) ==
    LET d == LoadRegs(c, OpX(c), 0) IN
    IF d.panicked THEN d
    ELSE [d EXCEPT !.indexRegister = Shr(BitAnd(c.opcode, \h0F00), 8) + 1]

---------------------------------------------------------------------------
(* Cycle engine *)

\* fetch with the two bytes combined in the wrong order
fetchSwapped(c) ==
    IF c.programCounter >= memorySize \/ U16(c.programCounter + 1) >= memorySize
    THEN Panic(c)
    ELSE LET hi == MemRead(c.memory, c.programCounter)
             lo == MemRead(c.memory, U16(c.programCounter + 1))
         IN  [c EXCEPT !.opcode = BitOr(Shl16(lo, 8), hi)]

\* fetch: memory[programCounter] and memory[programCounter+1] are read before
\* opcode is assigned
fetch(c) ==
    IF c.programCounter >= memorySize \/ U16(c.programCounter + 1) >= memorySize
    THEN Panic(c)
    ELSE LET hi == MemRead(c.memory, c.programCounter)
             lo == MemRead(c.memory, U16(c.programCounter + 1))
         IN  [c EXCEPT !.opcode = BitOr(Shl16(hi, 8), lo)]

\* handler(c8) for the handler the dispatch table holds under that name
Call(handler, c, rnd) ==
    CASE handler = "op00E0" -> op00E0(c)
      [] handler = "op00EE" -> op00EE(c)
      [] handler = "op1NNN" -> op1NNN(c)
      [] handler = "op2NNN" -> op2NNN(c)
      [] handler = "op3XKK" -> op3XKK(c)
      [] handler = "op4XKK" -> op4XKK(c)
      [] handler = "op5XY0" -> op5XY0(c)
      [] handler = "op6XKK" -> op6XKK(c)
      [] handler = "op7XKK" -> op7XKK(c)
      [] handler = "op8XY0" -> op8XY0(c)
      [] handler = "op8XY1" -> op8XY1(c)
      [] handler = "op8XY2" -> op8XY2(c)
      [] handler = "op8XY3" -> op8XY3(c)
      [] handler = "op8XY4" -> op8XY4(c)
      [] handler = "op8XY5" -> op8XY5(c)
      [] handler = "op8XY6" -> op8XY6(c)
      [] handler = "op8XY7" -> op8XY7(c)
      [] handler = "op8XYE" -> op8XYE(c)
      [] handler = "op9XY0" -> op9XY0(c)
      [] handler = "opANNN" -> opANNN(c)
      [] handler = "opBNNN" -> opBNNN(c)
      [] handler = "opCXKK" -> opCXKK(c, rnd)
      [] handler = "opDXYN" -> opDXYN(c)
      [] handler = "opEX9E" -> opEX9E(c)
      [] handler = "opEXA1" -> opEXA1(c)
      [] handler = "opFX07" -> opFX07(c)
      [] handler = "opFX0A" -> opFX0A(c)
      [] handler = "opFX15" -> opFX15(c)
      [] handler = "opFX18" -> opFX18(c)
      [] handler = "opFX1E" -> opFX1E(c)
      [] handler = "opFX29" -> opFX29(c)
      [] handler = "opFX33" -> opFX33(c)
      [] handler = "opFX55" -> opFX55(c)
      [] handler = "opFX65" -> opFX65(c)
      [] OTHER -> c

\* programCounter += 2 between fetch and dispatch
advance(c) == [c EXCEPT !.programCounter = U16(@ + 2)]

\* cycle that stops the machine on an opcode without a handler
cycleStopOnUnknown(c, rnd) ==
    LET f == fetch(c) IN
    IF f.panicked THEN f
    ELSE LET a == advance(f)
             handler == Lookup(decodeOpcode(a))
         IN  IF handler # "nil" THEN Call(handler, a, rnd)
             ELSE [a EXCEPT !.running = FALSE]

cycle(c, rnd) ==
    LET f == fetch(c) IN
    IF f.panicked THEN f
    ELSE LET a == advance(f)
             handler == Lookup(decodeOpcode(a))
         IN  IF handler # "nil" THEN Call(handler, a, rnd) ELSE a

---------------------------------------------------------------------------
(* Inputs: the ROM files, the keypad snapshots, the random bytes *)

\* The longest run of delay ticks the history dt counts
MaxTicks == 7

RECURSIVE Bytes(_)
Bytes(words) ==
    IF words = <<>> THEN <<>>
    ELSE <<Head(words) \div 256, Head(words) % 256>> \o Bytes(Tail(words))

File(data) == [readable |-> TRUE, data |-> data]

romMissing == [readable |-> FALSE, data |-> <<>>]
romEmpty == File(<<>>)
\* 4096 - 0x200 + 1 bytes of 0xFF
romTooBig == File([i \in 1 .. memorySize - startAddress + 1 |-> \hFF])
\* exactly 4096 - 0x200 bytes: JP 0x200, then 0xFF up to the last cell
romMax ==
    File([i \in 1 .. memorySize - startAddress |->
            IF i = 1 THEN \h12 ELSE IF i = 2 THEN \h00 ELSE \hFF])
\* 5 x CLS, then JP 0x20A
romCls == File(Bytes(<<\h00E0, \h00E0, \h00E0, \h00E0, \h00E0, \h120A>>))
\* LD V0, 0x12; LD V0, 0x34; JP 0x204
romLd == File(Bytes(<<\h6012, \h6034, \h1204>>))
\* opcodes without a handler between two loads, then JP 0x20E
romUnknown ==
    File(Bytes(<<\h6A05, \h8AB8, \hEA00, \hFAFF, \h0000, \hA123, \h0001, \h120E>>))
\* V0 = 5, delay = V0, V1 = 3, sound = V1, V2 = delay, JP 0x20A
romTimer == File(Bytes(<<\h6005, \hF015, \h6103, \hF118, \hF207, \h120A>>))
\* V0 = 3, delay = V0, wait for a key into V1, V1 += 1, JP 0x208
romWait == File(Bytes(<<\h6003, \hF015, \hF10A, \h7101, \h1208>>))
\* CALL 0x206; V10 = 1; JP 0x204; V11 = 2; RET
romCall == File(Bytes(<<\h2206, \h6A01, \h1204, \h6B02, \h00EE>>))
\* V0 = 0xFF; JP V0 + 0xFFF
romJumpOut == File(Bytes(<<\h60FF, \hBFFF>>))
\* RET on an empty call stack
romRet == File(Bytes(<<\h00EE>>))
\* V3 = random & 0x0F; DRW V3, V3, 1 at I = 0x050; CLS; JP 0x200
romDraw == File(Bytes(<<\hC30F, \hA050, \hD331, \h00E0, \h1200>>))

\* V0 = 5; SE V0,5 (skips); SNE V0,5; SE V0,V1; SNE V0,V1 (skips); V3 = 3;
\* SKP V3; SKNP V3; JP 0x214; JP 0x216
romSkip ==
    File(Bytes(<<\h6005, \h3005, \h0000, \h4005, \h5010, \h9010, \h0000,
                 \h6303, \hE39E, \hE3A1, \h1214, \h1216>>))
\* V0 = 0xA0; V1 = 0xB2; the register-to-register operations; I += V0;
\* I = glyph of V0; BCD of V0 at I; dump and load V0..V1; JP 0x220
romAlu ==
    File(Bytes(<<\h60A0, \h61B2, \h8014, \h8015, \h8016, \h8017, \h801E,
                 \h8011, \h8012, \h8013, \h8010, \hF01E, \hF029, \hF033,
                 \hF155, \hF165, \h1220>>))
\* a one-byte image: with the zero after it, JP 0x200
romOne == File(<<\h12>>)

\* I = 0x050; store V0 (0) at I; JP 0x204
romStoreLow == File(Bytes(<<\hA050, \hF055, \h1204>>))
\* CALL 0x200: the subroutine calls itself
romRecurse == File(Bytes(<<\h2200>>))
\* k nested subroutines, subroutine i at 0x200 + 4 * i:
\*   0x200: CALL 0x204; JP 0x202
\*   0x200 + 4 * i: CALL 0x200 + 4 * (i + 1); RET      (0 < i < k)
\*   0x200 + 4 * k: RET
romNest(k) ==
    File(Bytes([j \in 1 .. 2 * k + 1 |->
                  IF j = 2 THEN \h1202
                  ELSE IF j = 2 * k + 1 \/ j % 2 = 0 THEN \h00EE
                  ELSE \h2200 + 4 * ((j + 1) \div 2)]))

\* I = 0xFFE; BCD of V0 at I
romBcdOut == File(Bytes(<<\hAFFE, \hF033>>))
\* I = 0xFFF; DRW V0, V0, 2
romDrawOut == File(Bytes(<<\hAFFF, \hD002>>))
\* I = 0xFFF; dump V0..V1 at I
romDumpOut == File(Bytes(<<\hAFFF, \hF155>>))
\* I = 0xFFF; load V0..V1 from I
romLoadOut == File(Bytes(<<\hAFFF, \hF165>>))
\* V0 = 0xFF; I = 0xFFF; I += V0; BCD of V0 at I
romIndexAdd == File(Bytes(<<\h60FF, \hAFFF, \hF01E, \hF033>>))
\* V0 = 0x10; SKP V0
romKeyOut == File(Bytes(<<\h6010, \hE09E>>))
\* V1 = 0xFF; SKNP V1
romKeyHigh == File(Bytes(<<\h61FF, \hE1A1>>))
\* V2 = 0x0F; SKP V2; SKNP V2; I = 0xFFD; BCD of V2 at I; JP 0x20A
romInside == File(Bytes(<<\h620F, \hE29E, \hE2A1, \hAFFD, \hF233, \h120A>>))

RomFiles ==
    { romMissing, romTooBig, romMax, romCls, romLd, romUnknown,
      romTimer, romWait, romCall, romJumpOut, romRet, romDraw, romSkip, romAlu,
      romStoreLow }

\* the programs of calls and returns, nested to every depth the call stack
\* has room for
StackFiles ==
    { romCall, romRet, romRecurse } \cup { romNest(k) : k \in 1 .. stackSize }

\* programs that take the index register and a key number to the end of
\* their ranges and past it
RangeFiles ==
    { romBcdOut, romDrawOut, romDumpOut, romLoadOut, romIndexAdd,
      romKeyOut, romKeyHigh, romInside }

\* the files of the loading cases: unreadable, empty, one byte, a few
\* instructions, the largest image that fits and the smallest that does not
LoadFiles == { romMissing, romEmpty, romOne, romLd, romCls, romMax, romTooBig }

WaitFiles == { romWait }

KeyPadOf(S) == [k \in 0 .. 15 |-> IF k \in S THEN 1 ELSE 0]

KeySnapshots == { KeyPadOf({}), KeyPadOf({3}), KeyPadOf({3, 7}) }

RandomBytes == { \h00, \h5A, \hFF }

---------------------------------------------------------------------------
(* Run *)

draw(c) == c.display

\* updateInput that drops the quit report
updateInputKeepsRunning(c, keyPad, q) ==
    [c EXCEPT !.keyPad = keyPad]

updateInput(c, keyPad, q) ==
    [c EXCEPT !.keyPad = keyPad, !.running = IF q THEN FALSE ELSE @]

\* the handler the next cycle dispatches to
NextHandler(c) ==
    LET f == fetch(c) IN IF f.panicked THEN "nil" ELSE Lookup(decodeOpcode(f))

\* the decrement without its guard: a uint8 wraps from 0 to 255
TickDownWrap(t) == U8(t - 1)

TickDown(t) == IF t > 0 THEN t - 1 ELSE t

\* Before Run is called on a fresh Chip8{} with the ROM file chosen in files
Fresh(files) ==
    /\ c8 = zeroChip8
    /\ rom \in files
    /\ phase = "idle"
    /\ err = "none"
    /\ activity = "none"
    /\ polled = [keyPad |-> zeroChip8.keyPad, quit |-> FALSE]
    /\ decoded = 0
    /\ screen = blankDisplay
    /\ dt = [written |-> FALSE, set |-> 0, ticks |-> 0]
    /\ calls = <<>>
    /\ start = c8

Init == Fresh(RomFiles)

\* Run up to the loop: loadRom, then init
RunStart ==
    /\ phase = "idle"
    /\ IF loadRomErr(rom)
       THEN /\ c8' = loadRom(c8, rom)
            /\ phase' = "returned"
            /\ err' = "error"
       ELSE /\ c8' = init(loadRom(c8, rom))
            /\ phase' = "loop"
            /\ err' = "none"
    /\ UNCHANGED <<rom, activity, polled, decoded, screen, dt,
                 calls, start>>

InLoop == phase = "loop" /\ Running(c8)

\* one timer case that decrements both timers
SoundTickBoth ==
    /\ InLoop
    /\ c8' = [c8 EXCEPT !.soundTimer = TickDown(@), !.delayTimer = TickDown(@)]
    /\ activity' = "sound"
    /\ UNCHANGED <<rom, phase, err, polled, decoded, screen, dt,
                 calls, start>>

SoundTick ==
    /\ InLoop
    /\ c8' = [c8 EXCEPT !.soundTimer = TickDown(@)]
    /\ activity' = "sound"
    /\ UNCHANGED <<rom, phase, err, polled, decoded, screen, dt,
                 calls, start>>

\* the delay case decrementing the sound timer as well
DelayTickBoth ==
    /\ InLoop
    /\ c8' = [c8 EXCEPT !.delayTimer = TickDown(@), !.soundTimer = TickDown(@)]
    /\ activity' = "delay"
    /\ dt' = IF dt.written /\ dt.ticks < MaxTicks
             THEN [dt EXCEPT !.ticks = @ + 1] ELSE dt
    /\ UNCHANGED <<rom, phase, err, polled, decoded, screen,
                 calls, start>>

\* a wait for a key that holds up the loop: no delay tick is taken once an
\* attempt at FX0A has found no key
DelayTickHeldUp ==
    /\ InLoop
    /\ ~(c8.opcode \div 4096 = 15 /\ c8.opcode % 256 = 10)
    /\ c8' = [c8 EXCEPT !.delayTimer = TickDown(@)]
    /\ activity' = "delay"
    /\ dt' = IF dt.written /\ dt.ticks < MaxTicks
             THEN [dt EXCEPT !.ticks = @ + 1] ELSE dt
    /\ UNCHANGED <<rom, phase, err, polled, decoded, screen,
                 calls, start>>

DelayTick ==
    /\ InLoop
    /\ c8' = [c8 EXCEPT !.delayTimer = TickDown(@)]
    /\ activity' = "delay"
    /\ dt' = IF dt.written /\ dt.ticks < MaxTicks
             THEN [dt EXCEPT !.ticks = @ + 1] ELSE dt
    /\ UNCHANGED <<rom, phase, err, polled, decoded, screen,
                 calls, start>>

VideoTick ==
    /\ InLoop
    /\ screen' = draw(c8)
    /\ activity' = "video"
    /\ UNCHANGED <<c8, rom, phase, err, polled, decoded, dt,
                 calls, start>>

\* The calls not yet returned from after a cycle has taken the machine from
\* c to d: a 2NNN adds the address it was fetched at, a 00EE removes the
\* newest; a cycle that panicked completed neither
Called(cs, c, d) ==
    IF d.panicked THEN cs
    ELSE IF NextHandler(c) = "op2NNN" THEN Append(cs, c.programCounter)
    ELSE IF NextHandler(c) = "op00EE" THEN SubSeq(cs, 1, Len(cs) - 1)
    ELSE cs

\* a clock case that presents the frame buffer after its cycle
ClockTickDraws ==
    /\ InLoop
    /\ \E keyPad \in KeySnapshots, q \in BOOLEAN :
         LET in == updateInput(c8, keyPad, q) IN
         /\ polled' = [keyPad |-> keyPad, quit |-> q]
         /\ \E rnd \in (IF NextHandler(in) = "opCXKK" THEN RandomBytes ELSE {0}) :
              c8' = cycle(in, rnd)
         /\ decoded' = IF fetch(in).panicked THEN decoded ELSE decodeOpcode(fetch(in))
         /\ dt' = IF NextHandler(in) = "opFX15"
                  THEN [written |-> TRUE, set |-> c8'.delayTimer, ticks |-> 0]
                  ELSE dt
         /\ calls' = Called(calls, in, c8')
    /\ activity' = "clock"
    /\ phase' = IF c8'.panicked THEN "panic" ELSE "loop"
    /\ screen' = draw(c8')
    /\ UNCHANGED <<rom, err, start>>

\* a clock case that leaves out the cycle when the input refresh reports quit
ClockTickQuitFirst ==
    /\ InLoop
    /\ \E keyPad \in KeySnapshots, q \in BOOLEAN :
         LET in == updateInput(c8, keyPad, q) IN
         /\ polled' = [keyPad |-> keyPad, quit |-> q]
         /\ \E rnd \in (IF NextHandler(in) = "opCXKK" THEN RandomBytes ELSE {0}) :
              c8' = IF q THEN in ELSE cycle(in, rnd)
         /\ decoded' = IF fetch(in).panicked THEN decoded ELSE decodeOpcode(fetch(in))
         /\ dt' = IF NextHandler(in) = "opFX15"
                  THEN [written |-> TRUE, set |-> c8'.delayTimer, ticks |-> 0]
                  ELSE dt
         /\ calls' = Called(calls, in, c8')
    /\ activity' = "clock"
    /\ phase' = IF c8'.panicked THEN "panic" ELSE "loop"
    /\ UNCHANGED <<rom, err, screen, start>>

\* case <-clock.C: updateInput, then cycle
ClockTick ==
    /\ InLoop
    /\ \E keyPad \in KeySnapshots, q \in BOOLEAN :
         LET in == updateInput(c8, keyPad, q) IN
         /\ polled' = [keyPad |-> keyPad, quit |-> q]
         /\ \E rnd \in (IF NextHandler(in) = "opCXKK" THEN RandomBytes ELSE {0}) :
              c8' = cycle(in, rnd)
         /\ decoded' = IF fetch(in).panicked THEN decoded ELSE decodeOpcode(fetch(in))
         /\ dt' = IF NextHandler(in) = "opFX15"
                  THEN [written |-> TRUE, set |-> c8'.delayTimer, ticks |-> 0]
                  ELSE dt
         /\ calls' = Called(calls, in, c8')
    /\ activity' = "clock"
    /\ phase' = IF c8'.panicked THEN "panic" ELSE "loop"
    /\ UNCHANGED <<rom, err, screen, start>>

\* the loop condition is false: return nil
RunReturn ==
    /\ phase = "loop"
    /\ ~Running(c8)
    /\ phase' = "returned"
    /\ err' = "nil"
    /\ UNCHANGED <<c8, rom, activity, polled, decoded, screen, dt,
                 calls, start>>

Next ==
    \/ RunStart
    \/ SoundTick
    \/ DelayTick
    \/ VideoTick
    \/ ClockTick
    \/ RunReturn

Spec == Init /\ [][Next]_vars

\* Run on the files of the loading cases
InitLoad == Fresh(LoadFiles)

SpecLoad == InitLoad /\ [][Next]_vars

\* Run on the programs of calls and returns
InitStack == Fresh(StackFiles)

SpecStack == InitStack /\ [][Next]_vars

\* Run on the programs of the range cases
InitRange == Fresh(RangeFiles)

SpecRange == InitRange /\ [][Next]_vars

\* Run on a program that waits for a key.  The 60 Hz tickers keep
\* delivering and select chooses among the ready cases at random, so a timer
\* or video case that stays ready is not passed over forever.  Nothing is
\* assumed of the clock case.
InitWait == Fresh(WaitFiles)

FairSpec ==
    /\ InitWait
    /\ [][Next]_vars
    /\ WF_vars(SoundTick)
    /\ WF_vars(DelayTick)
    /\ WF_vars(VideoTick)

---------------------------------------------------------------------------
(* decodeOpcode called on its own, for every opcode value: the machine is  *)
(* the one a cycle has just before it decodes, after fetching the opcode   *)
(* from the first two cells of the program and advancing programCounter.   *)

Fetched(op) ==
    advance(fetch(init(loadRom(zeroChip8, File(Bytes(<<op>>))))))

InitDecode ==
    /\ \E op \in 0 .. 65535 :
         /\ c8 = Fetched(op)
         /\ rom = File(Bytes(<<op>>))
    /\ phase = "decode"
    /\ err = "none"
    /\ activity = "none"
    /\ polled = [keyPad |-> zeroChip8.keyPad, quit |-> FALSE]
    /\ decoded = 0
    /\ screen = blankDisplay
    /\ dt = [written |-> FALSE, set |-> 0, ticks |-> 0]
    /\ calls = <<>>
    /\ start = c8

Decode ==
    /\ phase = "decode"
    /\ decoded' = decodeOpcode(c8)
    /\ phase' = "decoded"
    /\ UNCHANGED <<c8, rom, err, activity, polled, screen, dt,
                 calls, start>>

NextDecode == Decode

SpecDecode == InitDecode /\ [][NextDecode]_vars

---------------------------------------------------------------------------
(* cycle called on its own, as the tests of the instructions do: on a      *)
(* machine that holds the instruction twice at 0x200, five sprite rows     *)
(* behind it, and chosen registers, index register, keypad and frame       *)
(* buffer.                                                                 *)

\* the rows at 0x204: all ones, the two outer bits, none, the inner four,
\* the last bit
SpriteRows == <<\hFF, \h81, \h00, \h3C, \h01>>

ExecFile(op) == File(Bytes(<<op, op>>) \o SpriteRows)

\* VX = vx and VY = vy for the X and Y of the opcode (VY where they are the
\* same register); register r holds 0x10 + r otherwise
Prepared(in) ==
    LET X == (in.op \div 256) % 16
        Y == (in.op \div 16) % 16
    IN  [init(loadRom(zeroChip8, ExecFile(in.op))) EXCEPT
            !.registers = [r \in 0 .. 15 |->
                             IF r = Y THEN in.vy
                             ELSE IF r = X THEN in.vx ELSE \h10 + r],
            !.indexRegister = in.i,
            !.keyPad = in.keyPad,
            !.display = in.display]

\* 3XKK, 4XKK, 5XY0 and 9XY0 on equal and unequal operands
SkipOpcodes ==
    { \h3005, \h3EFF, \h4005, \h4EFF, \h5120, \h5330, \h9120, \h9330 }

SkipValues == { \h00, \h05, \h7F, \hFF }

SkipInputs ==
    { [op |-> op, vx |-> vx, vy |-> vy, i |-> 0,
       keyPad |-> KeyPadOf({}), display |-> blankDisplay] :
         op \in SkipOpcodes, vx \in SkipValues, vy \in SkipValues }

\* FX0A, EX9E and EXA1 on keypads with no, one, several and all keys down
KeyOpcodes == { \hF10A, \hFF0A, \hE39E, \hE3A1, \hEF9E, \hEFA1 }

ExecKeyPads ==
    { KeyPadOf({}), KeyPadOf({0}), KeyPadOf({3}), KeyPadOf({15}),
      KeyPadOf({3, 7}), KeyPadOf({0, 9, 15}), KeyPadOf(0 .. 14),
      KeyPadOf(0 .. 15) }

KeyValues == 0 .. 16

KeyInputs ==
    { [op |-> op, vx |-> vx, vy |-> 0, i |-> 0,
       keyPad |-> k, display |-> blankDisplay] :
         op \in KeyOpcodes, vx \in KeyValues, k \in ExecKeyPads }

\* DXYN with heights 0, 1, 5 and 15, and with VF as an operand
DrawOpcodes == { \hD120, \hD121, \hD125, \hD12F, \hDF11, \hD1F1 }

DrawXs == { 0, 60, 63, 250, 255 }

DrawYs == { 0, 1, 30, 31, 255 }

\* the sprite rows, the last of them, the glyph of 0 in the font table, the
\* last three cells of memory
DrawIndexes == { \h204, \h208, \h050, 4093 }

\* an empty frame buffer, a few lit cells, and blocks of lit cells in the
\* corners
DrawDisplays ==
    { blankDisplay,
      { <<0, 0>>, <<0, 7>>, <<1, 0>>, <<31, 63>> },
      { <<r, c>> : r \in {0, 1, 2, 30, 31}, c \in (0 .. 7) \cup (60 .. 63) } }

DrawInputs ==
    { [op |-> op, vx |-> vx, vy |-> vy, i |-> i,
       keyPad |-> KeyPadOf({}), display |-> d] :
         op \in DrawOpcodes, vx \in DrawXs, vy \in DrawYs,
         i \in DrawIndexes, d \in DrawDisplays }

ExecInputs == SkipInputs \cup KeyInputs \cup DrawInputs

\* 8XY4, 8XY5 and 8XY7 on two registers, on one register twice, and with
\* VF as the first, the second or both operands
AluOperands == { <<1, 2>>, <<1, 1>>, <<1, 15>>, <<15, 2>>, <<15, 15>> }

AluOpcode(n, xy) == \h8000 + 256 * xy[1] + 16 * xy[2] + n

AluValues ==
    { \h00, \h01, \h03, \h05, \h0F, \h7F, \h80, \hA0, \hAF, \hB2, \hFE, \hFF }

ArithInputs ==
    { [op |-> AluOpcode(n, xy), vx |-> vx, vy |-> vy, i |-> 0,
       keyPad |-> KeyPadOf({}), display |-> blankDisplay] :
         n \in {4, 5, 7}, xy \in AluOperands,
         vx \in AluValues, vy \in AluValues }

\* 8XY6 and 8XYE on every value of VX, with a different value in VY
ShiftInputs ==
    { [op |-> AluOpcode(n, xy), vx |-> v, vy |-> 255 - v, i |-> 0,
       keyPad |-> KeyPadOf({}), display |-> blankDisplay] :
         n \in {6, 14}, xy \in AluOperands, v \in 0 .. 255 }

\* 7XKK on every value of VX
AddOpcodes == { \h7100, \h7105, \h71FF, \h7F01, \h7FFF }

AddInputs ==
    { [op |-> op, vx |-> v, vy |-> v, i |-> 0,
       keyPad |-> KeyPadOf({}), display |-> blankDisplay] :
         op \in AddOpcodes, v \in 0 .. 255 }

AluInputs == ArithInputs \cup ShiftInputs \cup AddInputs

\* FX33 on every value of VX, with I in the program area, on the sprite
\* rows, on the font table and on the last cells of memory
BcdOpcodes == { \hF133, \hFF33 }

BcdIndexes == { \h300, \h204, \h050, 4093, 4094, 4095 }

BcdInputs ==
    { [op |-> op, vx |-> v, vy |-> 255 - v, i |-> i,
       keyPad |-> KeyPadOf({}), display |-> blankDisplay] :
         op \in BcdOpcodes, v \in 0 .. 255, i \in BcdIndexes }

\* FX55 and FX65 on one, two, four and all sixteen registers
CopyOpcodes ==
    { \hF055, \hF155, \hF355, \hFF55, \hF065, \hF165, \hF365, \hFF65 }

CopyValues == { \h00, \h7F, \hFF }

\* the program area, the font table, the two opcodes and the sprite rows,
\* the last sixteen cells of memory, and three starts too near to its end
CopyIndexes == { \h300, \h050, \h200, 4080, 4090, 4095, \hFFFF }

CopyInputs ==
    { [op |-> op, vx |-> vx, vy |-> vy, i |-> i,
       keyPad |-> KeyPadOf({}), display |-> blankDisplay] :
         op \in CopyOpcodes, vx \in CopyValues, vy \in CopyValues,
         i \in CopyIndexes }

\* FX29 on every value of VX
FontOpcodes == { \hF129, \hFF29 }

FontInputs ==
    { [op |-> op, vx |-> v, vy |-> 255 - v, i |-> i,
       keyPad |-> KeyPadOf({}), display |-> blankDisplay] :
         op \in FontOpcodes, v \in 0 .. 255, i \in {0, \h300} }

MemInputs == BcdInputs \cup CopyInputs \cup FontInputs

\* the machine set up for one of the inputs, before the first cycle
InitOn(inputs) ==
    /\ \E in \in inputs :
         /\ c8 = Prepared(in)
         /\ rom = ExecFile(in.op)
         /\ polled = [keyPad |-> in.keyPad, quit |-> FALSE]
    /\ phase = "exec"
    /\ err = "none"
    /\ activity = "none"
    /\ decoded = 0
    /\ screen = blankDisplay
    /\ dt = [written |-> FALSE, set |-> 0, ticks |-> 0]
    /\ calls = <<>>
    /\ start = c8

InitExec == InitOn(ExecInputs)

InitAlu == InitOn(AluInputs)

InitMem == InitOn(MemInputs)

\* c8.cycle(), twice
Exec ==
    /\ phase \in {"exec", "again"}
    /\ \E rnd \in (IF NextHandler(c8) = "opCXKK" THEN RandomBytes ELSE {0}) :
         c8' = cycle(c8, rnd)
    /\ decoded' = IF fetch(c8).panicked THEN decoded ELSE decodeOpcode(fetch(c8))
    /\ calls' = Called(calls, c8, c8')
    /\ phase' = IF c8'.panicked THEN "panic"
                ELSE IF phase = "exec" THEN "again" ELSE "done"
    /\ UNCHANGED <<rom, err, activity, polled, screen, dt, start>>

NextExec == Exec

SpecExec == InitExec /\ [][NextExec]_vars

SpecAlu == InitAlu /\ [][NextExec]_vars

SpecMem == InitMem /\ [][NextExec]_vars

\* 6Rvv followed by an instruction that reads VR: SE VR, vv, or LD VX, VR for
\* the register X after R
ReadBack(kind, R, v) ==
    IF kind = "skip" THEN \h3000 + 256 * R + v
    ELSE \h8000 + 256 * ((R + 1) % 16) + 16 * R

RoundTripFile(kind, R, v) ==
    File(Bytes(<<\h6000 + 256 * R + v, ReadBack(kind, R, v)>>) \o SpriteRows)

\* a machine in the middle of a program: a call pending, both timers
\* running, cells lit, register r holding 0x10 + r
Busy(file) ==
    [init(loadRom(zeroChip8, file)) EXCEPT
        !.registers = [r \in 0 .. 15 |-> \h10 + r],
        !.indexRegister = \h204,
        !.callStack[0] = \h300,
        !.stackPointer = 1,
        !.delayTimer = 7,
        !.soundTimer = 9,
        !.keyPad = KeyPadOf({3}),
        !.display = { <<0, 0>>, <<0, 7>>, <<1, 0>>, <<31, 63>> }]

InitRoundTrip ==
    /\ \E kind \in {"skip", "copy"}, R \in 0 .. 15, v \in 0 .. 255 :
         /\ c8 = Busy(RoundTripFile(kind, R, v))
         /\ rom = RoundTripFile(kind, R, v)
    /\ polled = [keyPad |-> KeyPadOf({3}), quit |-> FALSE]
    /\ phase = "exec"
    /\ err = "none"
    /\ activity = "none"
    /\ decoded = 0
    /\ screen = blankDisplay
    /\ dt = [written |-> FALSE, set |-> 0, ticks |-> 0]
    /\ calls = <<>>
    /\ start = c8

SpecRoundTrip == InitRoundTrip /\ [][NextExec]_vars

\* every opcode of the family 0, and of the other families every opcode
\* with X = 0, 1, 3 or F
AnyOpcodes ==
    (0 .. \h0FFF) \cup
    { 4096 * f + 256 * X + kk :
        f \in 1 .. 15, X \in {0, 1, 3, 15}, kk \in 0 .. 255 }

\* the opcode twice in a row at 0x200, on the machine in the middle of a
\* program; registers V0..V7 hold their own number, the others 0x10 + r
InitAny ==
    /\ \E op \in AnyOpcodes :
         /\ c8 = [Busy(ExecFile(op)) EXCEPT
                    !.registers = [r \in 0 .. 15 |->
                                     IF r < 8 THEN r ELSE \h10 + r]]
         /\ rom = ExecFile(op)
    /\ polled = [keyPad |-> KeyPadOf({3}), quit |-> FALSE]
    /\ phase = "exec"
    /\ err = "none"
    /\ activity = "none"
    /\ decoded = 0
    /\ screen = blankDisplay
    /\ dt = [written |-> FALSE, set |-> 0, ticks |-> 0]
    /\ calls = <<>>
    /\ start = c8

SpecAny == InitAny /\ [][NextExec]_vars

\* Run on the ROM files, and the direct cycles on every opcode
InitFrame == Init \/ InitAny

NextFrame == Next \/ NextExec

SpecFrame == InitFrame /\ [][NextFrame]_vars

---------------------------------------------------------------------------
(* Properties *)

\* A step of the clock case: updateInput, then cycle
ClockStep == phase = "loop" /\ c8.running /\ activity' = "clock"

\* The machine the cycle of a clock step starts from: PollKeys has written
\* the keypad and, on quit, running is false
AfterInput ==
    [c8 EXCEPT !.keyPad = polled'.keyPad, !.running = (@ /\ ~polled'.quit)]

\* The opcode at programCounter, big-endian
OpcodeAtPC ==
    (MemRead(c8.memory, c8.programCounter) * 256)
        + MemRead(c8.memory, c8.programCounter + 1)

\* The handlers that write programCounter
JumpHandlers ==
    { "op00EE", "op1NNN", "op2NNN", "op3XKK", "op4XKK", "op5XY0", "op9XY0",
      "opBNNN", "opEX9E", "opEXA1", "opFX0A" }

\* C1: a cycle that starts with programCounter <= 4094 sets opcode to
\* memory[PC] * 256 + memory[PC + 1], adds 2 to programCounter before the
\* handler runs (Call stores PC + 2 as its return address) and then runs the
\* handler the dispatch table holds for the decoded key, or none; after an
\* instruction that does not write programCounter, programCounter is PC + 2.
C1_CycleStep ==
    (ClockStep /\ c8.programCounter <= 4094) =>
        LET fetched == [AfterInput EXCEPT !.opcode = OpcodeAtPC,
                                          !.programCounter = c8.programCounter + 2]
            handler == Lookup(decoded')
        IN  /\ c8'.opcode = OpcodeAtPC
            /\ decoded' = decodeOpcode(fetched)
            /\ \E rnd \in RandomBytes : c8' = Call(handler, fetched, rnd)
            /\ handler \notin JumpHandlers
                 => c8'.programCounter = c8.programCounter + 2
            /\ (handler = "op2NNN" /\ c8.stackPointer < 16)
                 => c8'.callStack[c8.stackPointer] = c8.programCounter + 2

C1_Cycle == [][C1_CycleStep]_vars

\* Five CLS from 0x200 have left programCounter at 0x20A
C1_Witness ==
    /\ rom = romCls
    /\ activity = "clock"
    /\ c8.opcode = \h00E0
    /\ c8.programCounter = \h20A

\* C2: for each of the 65536 opcode values decodeOpcode returns the low byte
\* when the high nibble is 0x0, the high and the low nibble when it is 0x8,
\* the high nibble and the low byte when it is 0xE or 0xF, and the high
\* nibble alone otherwise; the call leaves the machine as it was.
C2_Decode ==
    phase = "decoded" =>
        LET op == c8.opcode
            hi == op \div 4096
        IN  /\ decoded = IF hi = 0 THEN op % 256
                         ELSE IF hi = 8 THEN (8 * 4096) + (op % 16)
                         ELSE IF hi \in {14, 15} THEN (hi * 4096) + (op % 256)
                         ELSE hi * 4096
            /\ c8 = Fetched(op)

\* 0x8AB4 has been decoded to the key of 8XY4
C2_Witness ==
    /\ phase = "decoded"
    /\ c8.opcode = \h8AB4
    /\ decoded = \h8004
    /\ Lookup(decoded) = "op8XY4"

\* C3: a cycle whose decoded key has no entry in the dispatch table changes
\* programCounter (by +2) and opcode and nothing else of the machine:
\* registers, I, memory, call stack, stack pointer, timers, keypad, frame
\* buffer and running are as they were when the cycle began, and the loop
\* goes on.
C3_UnknownStep ==
    ( /\ ClockStep
      /\ c8.programCounter <= 4094
      /\ Lookup(decodeOpcode([c8 EXCEPT !.opcode = OpcodeAtPC])) = "nil" ) =>
        /\ c8' = [AfterInput EXCEPT !.programCounter = c8.programCounter + 2,
                                    !.opcode = OpcodeAtPC]
        /\ phase' = "loop"
        /\ screen' = screen

C3_Unknown == [][C3_UnknownStep]_vars

\* 0x8AB8 at 0x202 has been passed over: VA still holds 5, the machine runs
C3_Witness ==
    /\ rom = romUnknown
    /\ activity = "clock"
    /\ c8.opcode = \h8AB8
    /\ c8.programCounter = \h204
    /\ c8.registers[10] = 5
    /\ c8.running
    /\ phase = "loop"

\* A step of one of the other cases of the select
CaseStep(name) == phase = "loop" /\ c8.running /\ activity' = name

\* t - 1, but not below 0
OneLess(t) == IF t - 1 < 0 THEN 0 ELSE t - 1

\* C4: every iteration of the run loop runs exactly one of the four cases,
\* and each case is one step: a sound tick changes nothing but the sound
\* timer, a delay tick nothing but the delay timer, a redraw changes nothing
\* of the machine and hands the Renderer the frame buffer as the last
\* completed instruction left it, and a clock step (input refresh, then one
\* cycle) redraws nothing and changes a timer only by executing FX15 or FX18.
C4_OneActivityStep ==
    /\ (phase = "loop" /\ phase' = "loop")
         => activity' \in {"sound", "delay", "video", "clock"}
    /\ CaseStep("sound")
         => /\ c8' = [c8 EXCEPT !.soundTimer = c8'.soundTimer]
            /\ screen' = screen
    /\ CaseStep("delay")
         => /\ c8' = [c8 EXCEPT !.delayTimer = c8'.delayTimer]
            /\ screen' = screen
    /\ CaseStep("video")
         => /\ c8' = c8
            /\ screen' = c8.display
    /\ ClockStep
         => /\ screen' = screen
            /\ c8'.delayTimer # c8.delayTimer => c8'.opcode \div 4096 = 15 /\ c8'.opcode % 256 = \h15
            /\ c8'.soundTimer # c8.soundTimer => c8'.opcode \div 4096 = 15 /\ c8'.opcode % 256 = \h18

C4_OneActivity == [][C4_OneActivityStep]_vars

\* A redraw has handed over the whole first row of a glyph, four cells
C4_Witness ==
    /\ rom = romDraw
    /\ activity = "video"
    /\ screen = c8.display
    /\ Cardinality(screen) = 4
    /\ c8.opcode \div 4096 = 13

\* C5: a tick takes 1 from a timer that is above 0 and leaves a timer that
\* is 0 at 0; k delay ticks after FX15 wrote v, with no write in between,
\* the delay timer is v - k, or 0 once k >= v (k counted up to MaxTicks).
C5_TimerClampStep ==
    /\ CaseStep("delay") => c8'.delayTimer = OneLess(c8.delayTimer)
    /\ CaseStep("sound") => c8'.soundTimer = OneLess(c8.soundTimer)
    /\ (dt'.written /\ (dt'.ticks < MaxTicks \/ dt'.set <= MaxTicks))
         => c8'.delayTimer = (IF dt'.ticks < dt'.set THEN dt'.set - dt'.ticks ELSE 0)

C5_TimerClamp == [][C5_TimerClampStep]_vars

\* Six delay ticks after FX15 wrote 5 the delay timer is 0
C5_Witness ==
    /\ dt.written
    /\ dt.set = 5
    /\ dt.ticks = 6
    /\ activity = "delay"
    /\ c8.delayTimer = 0

\* C6 as stated: every timer tick decrements both timers
C6_BothTimersPerTick ==
    [][ (CaseStep("sound") \/ CaseStep("delay"))
          => /\ c8'.delayTimer = OneLess(c8.delayTimer)
             /\ c8'.soundTimer = OneLess(c8.soundTimer) ]_vars

\* C6, amended: the sound ticker and the delay ticker are separate events;
\* a sound tick decrements the sound timer (if above 0) and leaves the delay
\* timer, a delay tick decrements the delay timer (if above 0) and leaves
\* the sound timer.
C6_SeparateTicks ==
    [][ /\ CaseStep("sound")
             => /\ c8'.soundTimer = OneLess(c8.soundTimer)
                /\ c8'.delayTimer = c8.delayTimer
        /\ CaseStep("delay")
             => /\ c8'.delayTimer = OneLess(c8.delayTimer)
                /\ c8'.soundTimer = c8.soundTimer ]_vars

\* The sound timer (set to 3) has had a tick, the delay timer (set to 5 and
\* above 0) has had none
C6_Witness ==
    /\ rom = romTimer
    /\ activity = "sound"
    /\ c8.soundTimer = 2
    /\ dt.written
    /\ dt.ticks = 0
    /\ c8.delayTimer = 5

\* The loop is running and the next instruction is FX0A
Waiting == phase = "loop" /\ c8.running /\ NextHandler(c8) = "opFX0A"

\* A clock step on FX0A: without a pressed key only opcode changes and
\* programCounter is back on the instruction; with one, programCounter has
\* moved past it and VX holds a pressed key
C7_WaitStep ==
    (ClockStep /\ NextHandler(AfterInput) = "opFX0A") =>
        LET pressed == {k \in 0 .. 15 : polled'.keyPad[k] # 0} IN
        IF pressed = {}
        THEN c8' = [AfterInput EXCEPT !.opcode = OpcodeAtPC]
        ELSE /\ c8'.programCounter = c8.programCounter + 2
             /\ c8'.registers[(OpcodeAtPC \div 256) % 16] \in pressed

\* C7: while the next instruction is FX0A the other cases are still taken:
\* with the tickers delivering, a delay timer above 0 reaches 0 and a redraw
\* happens unless the wait ends first, and the clock step whose input
\* refresh reports a pressed key completes the instruction.
C7_NoStall ==
    /\ (Waiting /\ c8.delayTimer > 0) ~> (c8.delayTimer = 0 \/ ~Waiting)
    /\ Waiting ~> (activity = "video" \/ ~Waiting)
    /\ [][C7_WaitStep]_vars

\* Still on FX0A after a failed attempt, with no key pressed, and the delay
\* timer that was set to 3 has been ticked down to 0
C7_Witness ==
    /\ rom = romWait
    /\ Waiting
    /\ c8.opcode = \hF10A
    /\ polled.keyPad = KeyPadOf({})
    /\ dt.set = 3
    /\ dt.ticks = 3
    /\ c8.delayTimer = 0

\* A step out of a loop whose machine has stopped: Run returns nil and
\* nothing of the machine, the screen or the last activity changes
C8_StopStep ==
    /\ (ClockStep /\ polled'.quit) =>
           /\ ~c8'.running
           /\ c8' = cycle(AfterInput, 0) \/ NextHandler(AfterInput) = "opCXKK"
           /\ phase' = "loop" \/ c8'.panicked
    /\ (phase = "loop" /\ ~c8.running) =>
           /\ phase' = "returned"
           /\ err' = "nil"
           /\ c8' = c8
           /\ screen' = screen
           /\ activity' = activity
    /\ phase = "returned" => UNCHANGED vars
    /\ (phase # "idle" /\ ~c8.running) => ~c8'.running

\* C8: the clock step whose input refresh reports quit leaves running false
\* after completing its one cycle; from then on the only step is Run
\* returning nil, with no timer decrement, redraw or cycle, after which
\* nothing changes any more and running is never true again.
C8_QuitStops == [][C8_StopStep]_vars

\* Run has returned nil after a quit report, two loads into romLd
C8_Witness ==
    /\ rom = romLd
    /\ phase = "returned"
    /\ err = "nil"
    /\ polled.quit
    /\ ~c8.running
    /\ c8.registers[0] = \h34

\* C9: once Run has called loadRom, it has returned an error exactly when
\* the file could not be read or holds more than 3584 bytes, and then the
\* machine is the untouched fresh one (memory unchanged, running false),
\* Run has returned, and no cycle, timer tick or redraw has happened.
C9_LoadError ==
    phase # "idle" =>
        /\ (err = "error") <=> (~rom.readable \/ Len(rom.data) > 3584)
        /\ err = "error" =>
               /\ c8 = zeroChip8
               /\ phase = "returned"
               /\ activity = "none"
               /\ decoded = 0
               /\ screen = blankDisplay

\* Run has returned the error for a readable image of 3585 bytes
C9_Witness ==
    /\ rom.readable
    /\ Len(rom.data) = 3585
    /\ phase = "returned"
    /\ err = "error"

\* C10: on entry to the loop, memory holds the font table at 0x050..0x09F,
\* the image from 0x200 on and 0 everywhere else; programCounter is 0x200;
\* stackPointer, indexRegister, the registers and both timers are 0; and
\* running is true.
C10_AfterInit ==
    (phase = "loop" /\ activity = "none") =>
        /\ \A a \in 0 .. 4095 :
              MemRead(c8.memory, a) =
                  IF a \in \h050 .. \h09F THEN fontSet[a - \h050 + 1]
                  ELSE IF a >= \h200 /\ a - \h200 < Len(rom.data)
                       THEN rom.data[a - \h200 + 1]
                  ELSE 0
        /\ Len(fontSet) = 80
        /\ c8.programCounter = \h200
        /\ c8.stackPointer = 0
        /\ c8.indexRegister = 0
        /\ \A i \in 0 .. 15 : c8.registers[i] = 0
        /\ c8.delayTimer = 0
        /\ c8.soundTimer = 0
        /\ c8.running

\* The loop is entered with an image that fills the program area: the last
\* cell of memory holds the last byte of the image
C10_Witness ==
    /\ phase = "loop"
    /\ activity = "none"
    /\ Len(rom.data) = 3584
    /\ MemRead(c8.memory, 4095) = \hFF
    /\ MemRead(c8.memory, \h050) = \hF0

\* Run has passed loadRom and init
Initialised == phase \in {"loop", "panic", "returned"} /\ err # "error"

\* C11 as stated: in every state after initialisation the cells below 0x200
\* hold what init left there, the font table at 0x050..0x09F and 0 elsewhere
C11_LowMemoryKept ==
    Initialised =>
        \A a \in 0 .. \h1FF :
            MemRead(c8.memory, a) =
                IF a \in \h050 .. \h09F THEN fontSet[a - \h050 + 1] ELSE 0

\* C12 as stated: programCounter is within 0..4094 in every state
C12_PCInRange == c8.programCounter \in 0 .. 4094

\* C13 as stated: stackPointer is within 0..16 in every state, and no 2NNN
\* or 00EE has indexed the call stack outside 0..15
C13_StackInRange ==
    /\ c8.stackPointer \in 0 .. 16
    /\ ~(c8.panicked /\ decoded \in {\h00EE, \h2000})

\* The call stack holds, oldest first, the return address p + 2 of every
\* call fetched at p and not yet returned from, and stackPointer counts them
C14_Lifo ==
    ~c8.panicked =>
        /\ c8.stackPointer = Len(calls)
        /\ \A i \in 1 .. Len(calls) : c8.callStack[i - 1] = calls[i] + 2

\* A cycle executing 2NNN below depth 16 and a cycle executing 00EE
C14_CallReturnStep ==
    /\ (ClockStep /\ NextHandler(AfterInput) = "op2NNN"
               /\ c8.stackPointer < 16) =>
           /\ ~c8'.panicked
           /\ c8'.stackPointer = c8.stackPointer + 1
           /\ c8'.programCounter = OpcodeAtPC % 4096
           /\ calls' = Append(calls, c8.programCounter)
    /\ (ClockStep /\ NextHandler(AfterInput) = "op00EE" /\ calls # <<>>) =>
           /\ ~c8'.panicked
           /\ c8'.programCounter = calls[Len(calls)] + 2
           /\ c8'.stackPointer = Len(calls) - 1
           /\ c8'.callStack = c8.callStack
           /\ calls' = SubSeq(calls, 1, Len(calls) - 1)

\* C14: a 2NNN fetched at p with stackPointer < 16 and the 00EE that
\* follows it leave programCounter = p + 2 and stackPointer at its value
\* before the call; up to depth 16 every return goes to the address after
\* the newest call not yet returned from, so k calls followed by k returns
\* return in last-in-first-out order.
C14_CallReturn == []C14_Lifo /\ [][C14_CallReturnStep]_vars

\* Sixteen nested calls and sixteen returns later the program is back
\* behind its first call, with an empty stack
C14_Witness ==
    /\ rom = romNest(16)
    /\ c8.opcode = \h00EE
    /\ c8.programCounter = \h202
    /\ c8.stackPointer = 0
    /\ c8.callStack[15] = \h23E
    /\ calls = <<>>

\* A direct call of cycle
ExecStep == phase \in {"exec", "again"} /\ phase' # phase

\* The fields of the opcode at programCounter
FamilyAtPC == OpcodeAtPC \div 4096
XAtPC == (OpcodeAtPC \div 256) % 16
YAtPC == (OpcodeAtPC \div 16) % 16
KKAtPC == OpcodeAtPC % 256

\* The condition of the skip instruction at programCounter
SkipCondition ==
    CASE FamilyAtPC = 3 -> c8.registers[XAtPC] = KKAtPC
      [] FamilyAtPC = 4 -> c8.registers[XAtPC] # KKAtPC
      [] FamilyAtPC = 5 -> c8.registers[XAtPC] = c8.registers[YAtPC]
      [] FamilyAtPC = 9 -> c8.registers[XAtPC] # c8.registers[YAtPC]

C15_SkipStep ==
    (ExecStep /\ FamilyAtPC \in {3, 4, 5, 9}) =>
        c8' = [c8 EXCEPT
                 !.opcode = OpcodeAtPC,
                 !.programCounter =
                     c8.programCounter + (IF SkipCondition THEN 4 ELSE 2)]

\* C15: a cycle on 3XKK, 4XKK, 5XY0 or 9XY0 leaves programCounter 4 above
\* its value before the fetch when the instruction's condition holds and 2
\* above it otherwise, and changes nothing else but opcode.
C15_Skips == [][C15_SkipStep]_vars

\* SNE V0, 0x05 with V0 = 0x7F has skipped from 0x200 to 0x204
C15_Witness ==
    /\ phase = "again"
    /\ c8.opcode = \h4005
    /\ c8.registers[0] = \h7F
    /\ start.programCounter = \h200
    /\ c8.programCounter = \h204

\* The keys that are down on the keypad of the machine
Pressed == {k \in 0 .. 15 : c8.keyPad[k] # 0}

\* A direct call of cycle on FX0A
WaitKeyStep == ExecStep /\ FamilyAtPC = 15 /\ KKAtPC = \h0A

C16_WaitKeyStep ==
    WaitKeyStep =>
        IF Pressed = {}
        THEN /\ c8' = [c8 EXCEPT !.opcode = OpcodeAtPC]
             /\ OpcodeAtPC' = OpcodeAtPC
        ELSE /\ c8'.programCounter = c8.programCounter + 2
             /\ c8'.registers[XAtPC] \in Pressed
             /\ \A r \in 0 .. 15 \ {XAtPC} :
                   c8'.registers[r] = c8.registers[r]

\* C16: a cycle on FX0A with no key down leaves programCounter and every
\* register as before the cycle, so the next fetch reads the same
\* instruction; with a key down it leaves programCounter 2 higher and VX
\* holding a key that is down.
C16_WaitKey == [][C16_WaitKeyStep]_vars

\* Two cycles on LD V1, K with no key down: still at 0x200, V1 untouched
C16_Witness ==
    /\ phase = "done"
    /\ c8.opcode = \hF10A
    /\ Pressed = {}
    /\ c8.programCounter = \h200
    /\ start.programCounter = \h200
    /\ c8.registers = start.registers

\* C17 as stated: with keys down, VX receives the lowest of them
C17_LowestKey ==
    [][(WaitKeyStep /\ Pressed # {}) =>
          \A k \in Pressed : c8'.registers[XAtPC] <= k]_vars

\* C17, amended: with keys down, VX receives the highest of them
C17_HighestKey ==
    [][(WaitKeyStep /\ Pressed # {}) =>
          /\ c8'.registers[XAtPC] \in Pressed
          /\ \A k \in Pressed : c8'.registers[XAtPC] >= k]_vars

\* LD V1, K with keys 3 and 7 down has stored 7
C17_Witness ==
    /\ phase = "again"
    /\ c8.opcode = \hF10A
    /\ Pressed = {3, 7}
    /\ c8.registers[1] = 7

C18_KeySkipStep ==
    (ExecStep /\ FamilyAtPC = 14 /\ KKAtPC \in {\h9E, \hA1}
              /\ c8.registers[XAtPC] <= 15) =>
        LET down == c8.registers[XAtPC] \in Pressed
            skip == IF KKAtPC = \h9E THEN down ELSE ~down
        IN  c8' = [c8 EXCEPT
                     !.opcode = OpcodeAtPC,
                     !.programCounter =
                         c8.programCounter + (IF skip THEN 4 ELSE 2)]

\* C18: with VX in 0..15, a cycle on EX9E adds the extra 2 to programCounter
\* exactly when key VX is down and a cycle on EXA1 exactly when it is not,
\* so on the same keypad and VX one of the two skips and the other does
\* not; neither changes anything else but opcode.
C18_KeySkip == [][C18_KeySkipStep]_vars

\* SKP V3 with V3 = 3 and keys 3 and 7 down has skipped to 0x204
C18_Witness ==
    /\ phase = "again"
    /\ c8.opcode = \hE39E
    /\ c8.registers[3] = 3
    /\ Pressed = {3, 7}
    /\ c8.programCounter = \h204

\* A direct call of cycle on DXYN whose N sprite rows lie inside memory
DrawStep ==
    /\ ExecStep
    /\ FamilyAtPC = 13
    /\ c8.indexRegister + (OpcodeAtPC % 16) <= 4096

\* Bit col (0 is the most significant) of sprite row r is set
SpriteBit(r, col) ==
    (MemRead(c8.memory, c8.indexRegister + r) \div Pow2(7 - col)) % 2 = 1

\* The cells the set sprite bits fall on, with VX and VY as they are before
\* the instruction
SpriteCells ==
    { <<(c8.registers[YAtPC] + r) % 32, (c8.registers[XAtPC] + col) % 64>> :
        <<r, col>> \in { rc \in (0 .. (OpcodeAtPC % 16) - 1) \X (0 .. 7) :
                            SpriteBit(rc[1], rc[2]) } }

C19_DrawStep ==
    DrawStep =>
        /\ c8'.display = (c8.display \ SpriteCells) \cup (SpriteCells \ c8.display)
        /\ c8'.registers =
              [c8.registers EXCEPT
                 ![15] = IF SpriteCells \cap c8.display # {} THEN 1 ELSE 0]
        /\ c8' = [c8 EXCEPT !.opcode = OpcodeAtPC,
                            !.programCounter = c8.programCounter + 2,
                            !.display = c8'.display,
                            !.registers = c8'.registers]

\* C19: a cycle on DXYN whose rows memory[I + r], r < N, exist toggles
\* exactly the cells ((VY + r) mod 32, (VX + c) mod 64) of the set sprite
\* bits, most significant bit first, for every VX and VY; VF ends 1 if one
\* of these cells was set before and 0 otherwise, whatever it held before
\* (N = 0 toggles nothing and leaves VF = 0); the other registers, I and
\* memory are unchanged.
C19_Draw == [][C19_DrawStep]_vars

\* The all-ones row drawn at VX = 63, VY = 31 has cleared the lit cell
\* (31, 63), lit (31, 0) to (31, 6) and set VF
C19_Witness ==
    /\ phase = "again"
    /\ c8.opcode = \hD121
    /\ start.registers[1] = 63
    /\ start.registers[2] = 31
    /\ start.indexRegister = \h204
    /\ <<31, 63>> \in start.display
    /\ <<31, 63>> \notin c8.display
    /\ \A col \in 0 .. 6 : <<31, col>> \in c8.display
    /\ <<31, 7>> \notin c8.display
    /\ c8.registers[15] = 1

\* The second of two cycles on the same DXYN, with VX, VY and I as they were
\* before the first
SecondDrawStep ==
    /\ DrawStep
    /\ phase = "again"
    /\ c8.opcode = OpcodeAtPC
    /\ c8.registers[XAtPC] = start.registers[XAtPC]
    /\ c8.registers[YAtPC] = start.registers[YAtPC]
    /\ c8.indexRegister = start.indexRegister
    /\ c8.memory = start.memory

\* C20 as stated: the second draw restores the frame buffer and leaves
\* VF = 1 exactly when the sprite has a set bit
C20_SecondDrawFlagsSprite ==
    [][SecondDrawStep =>
          /\ c8'.display = start.display
          /\ c8'.registers[15] = 1 <=> SpriteCells # {}]_vars

\* C20, amended: the second draw restores the frame buffer, and leaves
\* VF = 1 exactly when a set sprite bit falls on a cell that was not set
\* before the first draw (on an empty frame buffer: when the sprite has a
\* set bit), and VF = 0 otherwise
C20_DrawTwice ==
    [][SecondDrawStep =>
          /\ c8'.display = start.display
          /\ c8'.registers[15] =
                IF SpriteCells \ start.display # {} THEN 1 ELSE 0]_vars

\* The all-ones row drawn twice at (0, 0) onto cells that were all set: the
\* frame buffer is as before and VF is 0
C20_Witness ==
    /\ phase = "done"
    /\ c8.opcode = \hD121
    /\ c8.programCounter = \h204
    /\ start.registers[1] = 0
    /\ start.registers[2] = 0
    /\ start.indexRegister = \h204
    /\ \A col \in 0 .. 7 : <<0, col>> \in start.display
    /\ c8.display = start.display
    /\ c8.registers[15] = 0

\* A cycle on DXY1 with VX = 63
EdgeRowStep == DrawStep /\ OpcodeAtPC % 16 = 1 /\ c8.registers[XAtPC] = 63

\* The cycle changes the cell in column col of row VY mod 32
Written(col) ==
    LET cell == <<c8.registers[YAtPC] % 32, col>> IN
    (cell \in c8.display) # (cell \in c8'.display)

\* C21 as stated: at VX = 63 the first pixel of the row is written into
\* column 63 and the 8th pixel, the least significant bit, into column 0
C21_EighthPixelInColumn0 ==
    [][EdgeRowStep =>
          /\ SpriteBit(0, 0) => Written(63)
          /\ (SpriteBit(0, 7) /\ ~SpriteBit(0, 1)) => Written(0)]_vars

\* C21, amended: at VX = 63 the first pixel of the row is written into
\* column 63 and pixels 2 to 8 into columns 0 to 6, the 8th pixel (the
\* least significant bit) into column 6; no other column is written
C21_WrapColumns ==
    [][EdgeRowStep =>
          \A col \in 0 .. 63 :
              Written(col) <=>
                  \/ col = 63 /\ SpriteBit(0, 0)
                  \/ col \in 0 .. 6 /\ SpriteBit(0, col + 1)]_vars

\* The all-ones row drawn at VX = 63, VY = 0 on an empty frame buffer has
\* lit column 63 and columns 0 to 6 of row 0, and nothing else
C21_Witness ==
    /\ phase = "again"
    /\ c8.opcode = \hD121
    /\ start.registers[1] = 63
    /\ start.registers[2] = 0
    /\ start.indexRegister = \h204
    /\ start.display = blankDisplay
    /\ c8.display = {<<0, 63>>} \cup {<<0, col>> : col \in 0 .. 6}

\* A direct call of cycle on 8XYn
AluStep(n) == ExecStep /\ FamilyAtPC = 8 /\ OpcodeAtPC % 16 = n

\* The values of VX and VY before the instruction
ValueX == c8.registers[XAtPC]
ValueY == c8.registers[YAtPC]

\* The machine after a cycle that has changed nothing but opcode,
\* programCounter, VX (to v) and VF (to flag)
Result(v, flag) ==
    [c8 EXCEPT !.opcode = OpcodeAtPC,
               !.programCounter = c8.programCounter + 2,
               !.registers = [c8.registers EXCEPT ![15] = flag, ![XAtPC] = v]]

\* C22: a cycle on 8XY4 with X # 0xF leaves VX = (x + y) mod 256 and VF = 1
\* if x + y > 255, else 0, for x and y the values of VX and VY before, for
\* every Y; nothing else but opcode and programCounter changes.
C22_Add ==
    [][(AluStep(4) /\ XAtPC # 15) =>
          c8' = Result((ValueX + ValueY) % 256,
                       IF ValueX + ValueY > 255 THEN 1 ELSE 0)]_vars

\* ADD V1, V2 with V1 = 0xA0, V2 = 0xB2 has left V1 = 0x52, VF = 1
C22_Witness ==
    /\ phase = "again"
    /\ c8.opcode = \h8124
    /\ start.registers[1] = \hA0
    /\ start.registers[2] = \hB2
    /\ c8.registers[1] = \h52
    /\ c8.registers[15] = 1

\* C23 as stated: with X # 0xF and every Y, 8XY5 leaves VX = (x - y) mod 256
\* and VF = 1 exactly when x > y, and 8XY7 leaves VX = (y - x) mod 256 and
\* VF = 1 exactly when y > x
C23_Subtract ==
    [][/\ (AluStep(5) /\ XAtPC # 15) =>
             c8' = Result((ValueX - ValueY) % 256,
                          IF ValueX > ValueY THEN 1 ELSE 0)
       /\ (AluStep(7) /\ XAtPC # 15) =>
             c8' = Result((ValueY - ValueX) % 256,
                          IF ValueY > ValueX THEN 1 ELSE 0)]_vars

\* C24: a cycle on 8XY6 with X # 0xF leaves VF = x mod 2 and VX = x div 2
\* for the value x of VX before, whatever VY holds; no register but VX and
\* VF changes, and nothing else but opcode and programCounter.
C24_ShiftRight ==
    [][(AluStep(6) /\ XAtPC # 15) =>
          c8' = Result(ValueX \div 2, ValueX % 2)]_vars

\* SHR V1 with V1 = 0x01 and V2 = 0xFE has left V1 = 0x00, VF = 1 and V2
C24_Witness ==
    /\ phase = "again"
    /\ c8.opcode = \h8126
    /\ start.registers[1] = \h01
    /\ c8.registers[1] = \h00
    /\ c8.registers[15] = 1
    /\ c8.registers[2] = \hFE

\* C25: a cycle on 8XYE with X # 0xF leaves VF = 1 if x >= 128 and 0
\* otherwise, and VX = (2 * x) mod 256, for the value x of VX before;
\* nothing else but opcode and programCounter changes.
C25_ShiftLeft ==
    [][(AluStep(14) /\ XAtPC # 15) =>
          c8' = Result((2 * ValueX) % 256,
                       IF ValueX >= 128 THEN 1 ELSE 0)]_vars

\* SHL V1 with V1 = 0x81 has left V1 = 0x02 and VF = 1
C25_Witness ==
    /\ phase = "again"
    /\ c8.opcode = \h812E
    /\ start.registers[1] = \h81
    /\ c8.registers[1] = \h02
    /\ c8.registers[15] = 1

\* The flag of the ALU instruction at programCounter, from the values of VX
\* and VY before it
FlagAtPC ==
    CASE OpcodeAtPC % 16 = 4 -> IF ValueX + ValueY > 255 THEN 1 ELSE 0
      [] OpcodeAtPC % 16 = 5 -> IF ValueX > ValueY THEN 1 ELSE 0
      [] OpcodeAtPC % 16 = 6 -> ValueX % 2
      [] OpcodeAtPC % 16 = 7 -> IF ValueY > ValueX THEN 1 ELSE 0
      [] OpcodeAtPC % 16 = 14 -> IF ValueX >= 128 THEN 1 ELSE 0

\* C26 as stated: after 8XY4, 8XY5, 8XY6, 8XY7 or 8XYE, for every X, VF
\* holds the operation's flag, 0 or 1
C26_FlagInVF ==
    [][(ExecStep /\ FamilyAtPC = 8 /\ OpcodeAtPC % 16 \in {4, 5, 6, 7, 14}) =>
          /\ c8'.registers[15] = FlagAtPC
          /\ c8'.registers[15] \in {0, 1}]_vars

\* A direct call of cycle on FXnn
MemStep(nn) == ExecStep /\ FamilyAtPC = 15 /\ OpcodeAtPC % 256 = nn

\* Nothing but opcode, programCounter and the cells of memory has changed
OnlyMemoryWritten ==
    [c8' EXCEPT !.memory = c8.memory] =
        [c8 EXCEPT !.opcode = OpcodeAtPC,
                   !.programCounter = c8.programCounter + 2]

\* C27: a cycle on FX33 with I <= 4093 leaves the hundreds, tens and ones
\* digit of the value v of VX in memory[I], memory[I+1] and memory[I+2],
\* each in 0..9 and together worth v; I, the registers and every other cell
\* of memory are unchanged.
C27_Bcd ==
    [][(MemStep(\h33) /\ c8.indexRegister <= 4093) =>
          LET I == c8.indexRegister
              digit(k) == MemRead(c8'.memory, I + k)
          IN  /\ digit(0) = ValueX \div 100
              /\ digit(1) = (ValueX \div 10) % 10
              /\ digit(2) = ValueX % 10
              /\ \A k \in 0 .. 2 : digit(k) \in 0 .. 9
              /\ 100 * digit(0) + 10 * digit(1) + digit(2) = ValueX
              /\ \A a \in (0 .. memorySize - 1) \ (I .. I + 2) :
                    MemRead(c8'.memory, a) = MemRead(c8.memory, a)
              /\ OnlyMemoryWritten]_vars

\* LD B, V1 with V1 = 123 and I = 0x300 has left 1, 2, 3 at 0x300..0x302
C27_Witness ==
    /\ phase = "again"
    /\ c8.opcode = \hF133
    /\ start.registers[1] = 123
    /\ start.indexRegister = \h300
    /\ MemRead(start.memory, \h300) = 0
    /\ MemRead(c8.memory, \h300) = 1
    /\ MemRead(c8.memory, \h301) = 2
    /\ MemRead(c8.memory, \h302) = 3

C29_FontAddress ==
    [][MemStep(\h29) =>
          /\ c8'.indexRegister = \h050 + 5 * ValueX
          /\ ValueX <= 15 =>
                \A k \in 0 .. 4 :
                   MemRead(c8'.memory, c8'.indexRegister + k) =
                       fontSet[5 * ValueX + k + 1]]_vars

\* C31: a cycle on 6Rvv leaves VR = v and changes nothing else but opcode
\* and programCounter, for every R in 0..F and v in 0..255; the instruction
\* after it reads v from VR: SE VR, v skips, and LD VX, VR leaves VX = v.
C31_LoadRoundTrip ==
    [][/\ (ExecStep /\ FamilyAtPC = 6) =>
             c8' = [c8 EXCEPT !.opcode = OpcodeAtPC,
                              !.programCounter = c8.programCounter + 2,
                              !.registers[XAtPC] = KKAtPC]
       /\ (ExecStep /\ phase = "again" /\ FamilyAtPC = 3) =>
             /\ KKAtPC = MemRead(start.memory, startAddress + 1)
             /\ c8'.programCounter = c8.programCounter + 4
       /\ (ExecStep /\ phase = "again" /\ FamilyAtPC = 8) =>
             c8'.registers[XAtPC] =
                 MemRead(start.memory, startAddress + 1)]_vars

\* LD VF, 0xC3 and then SE VF, 0xC3 have left VF = 0xC3 and skipped
C31_Witness ==
    /\ phase = "done"
    /\ MemRead(start.memory, startAddress) = \h6F
    /\ MemRead(start.memory, startAddress + 1) = \hC3
    /\ start.registers[15] = \h1F
    /\ c8.opcode = \h3FC3
    /\ c8.registers[15] = \hC3
    /\ c8.programCounter = startAddress + 6

\* A cycle: in the clock case of Run, or called directly
CycleStep == ClockStep \/ ExecStep

\* The machine the cycle starts from
Before == IF phase = "loop" THEN AfterInput ELSE c8

\* The cycle dispatches to one of the handlers named
Executes(handlers) == NextHandler(Before) \in handlers

\* C32: a cycle leaves the delay timer as it was unless it executes FX15,
\* which sets it to VX, and the sound timer as it was unless it executes
\* FX18, which sets it to VX; FX07 leaves VX = delay timer and both timers
\* as they were.
C32_CycleKeepsTimers ==
    [][CycleStep =>
          /\ c8'.delayTimer = IF Executes({"opFX15"})
                              THEN c8.registers[XAtPC] ELSE c8.delayTimer
          /\ c8'.soundTimer = IF Executes({"opFX18"})
                              THEN c8.registers[XAtPC] ELSE c8.soundTimer
          /\ Executes({"opFX07"}) =>
                c8'.registers[XAtPC] = c8.delayTimer]_vars

\* LD V1, DT with the delay timer at 7 has left V1 = 7 and the timer at 7
C32_Witness ==
    /\ phase = "again"
    /\ c8.opcode = \hF107
    /\ start.registers[1] = 1
    /\ start.delayTimer = 7
    /\ c8.registers[1] = 7
    /\ c8.delayTimer = 7
    /\ c8.soundTimer = 9

\* C33: the frame buffer changes only in a cycle that executes 00E0 or
\* DXYN, and after 00E0 no cell is lit; every other cycle, the timer ticks,
\* the input refresh and the redraw leave every cell as it was.
C33_DisplayWriters ==
    [][/\ c8'.display # c8.display =>
             CycleStep /\ Executes({"op00E0", "opDXYN"})
       /\ (CycleStep /\ Executes({"op00E0"})) =>
             \A row \in 0 .. displayHeight - 1, col \in 0 .. displayWidth - 1 :
                ~Lit(c8'.display, row, col)]_vars

\* CLS on a frame buffer with four lit cells has left none
C33_Witness ==
    /\ phase = "again"
    /\ c8.opcode = \h00E0
    /\ Cardinality(start.display) = 4
    /\ c8.display = blankDisplay

\* C34: a cycle leaves the 16 key flags as the input refresh before it set
\* them (as they were, for a cycle called directly), also when it executes
\* FX0A, EX9E or EXA1; no other step changes a flag.
C34_KeypadReadOnly ==
    [][/\ CycleStep => c8'.keyPad = Before.keyPad
       /\ c8'.keyPad # c8.keyPad => ClockStep /\ c8'.keyPad = polled'.keyPad]_vars

\* LD V1, K with key 3 down has left V1 = 3 and the key down
C34_Witness ==
    /\ phase = "again"
    /\ c8.opcode = \hF10A
    /\ start.registers[1] = 1
    /\ c8.registers[1] = 3
    /\ c8.keyPad = KeyPadOf({3})

\* C35: the Renderer is handed a frame only in the redraw case, and then
\* the frame buffer as the machine holds it, which the redraw leaves as it
\* is; a clock step, also one that executes DXYN or 00E0, hands over
\* nothing, so what the Renderer has shown last stays until the next redraw.
C35_RedrawOnly ==
    [][/\ screen' # screen => CaseStep("video")
       /\ CaseStep("video") => screen' = draw(c8) /\ c8' = c8
       /\ (ClockStep /\ NextHandler(AfterInput) \in {"op00E0", "opDXYN"}) =>
             screen' = screen]_vars

\* DRW has lit the first row of a glyph and the Renderer has not been
\* handed it: what it has shown last is still the empty frame
C35_Witness ==
    /\ rom = romDraw
    /\ activity = "clock"
    /\ c8.opcode \div 4096 = 13
    /\ Cardinality(c8.display) = 4
    /\ screen = blankDisplay

\* A clock step whose cycle executes 2NNN, and one whose cycle executes 00EE
CallStep == ClockStep /\ NextHandler(AfterInput) = "op2NNN"
ReturnStep == ClockStep /\ NextHandler(AfterInput) = "op00EE"

\* Return with at least one and at most sixteen addresses on the stack:
\* stackPointer is one less afterwards and programCounter is the address
\* at the new pointer position
ReturnReadsBelow ==
    (ReturnStep /\ c8.stackPointer \in 1 .. stackSize) =>
        /\ c8'.stackPointer = c8.stackPointer - 1
        /\ c8'.programCounter = c8.callStack[c8.stackPointer - 1]
        /\ c8'.callStack = c8.callStack

\* C36 as stated: Call increments stackPointer and then writes the return
\* address at the new pointer position; Return decrements and then reads at
\* the new pointer position
C36_IncrementThenWrite ==
    [][/\ (CallStep /\ c8.stackPointer + 1 < stackSize) =>
             /\ c8'.stackPointer = c8.stackPointer + 1
             /\ c8'.callStack =
                   [c8.callStack EXCEPT
                      ![c8.stackPointer + 1] = c8.programCounter + 2]
       /\ ReturnReadsBelow]_vars

\* C36, amended: Call writes the return address at the pointer position of
\* before the call and then increments stackPointer, so the newest address
\* is in the cell below the pointer; Return decrements and then reads at
\* the new pointer position.
C36_WriteThenIncrement ==
    [][/\ (CallStep /\ c8.stackPointer < stackSize) =>
             /\ c8'.stackPointer = c8.stackPointer + 1
             /\ c8'.callStack =
                   [c8.callStack EXCEPT
                      ![c8.stackPointer] = c8.programCounter + 2]
       /\ ReturnReadsBelow]_vars

\* The second of two nested calls has written its return address into
\* cell 1 and left stackPointer at 2, with cell 2 untouched
C36_Witness ==
    /\ rom = romNest(2)
    /\ c8.opcode = \h2208
    /\ c8.stackPointer = 2
    /\ c8.callStack[0] = \h202
    /\ c8.callStack[1] = \h206
    /\ c8.callStack[2] = 0

\* The cells of memory the instruction at programCounter reaches through
\* the index register, in 16-bit arithmetic
IndexedCells ==
    LET h == NextHandler(Before)
        last == CASE h = "opDXYN" -> (OpcodeAtPC % 16) - 1
                  [] h = "opFX33" -> 2
                  [] h \in {"opFX55", "opFX65"} -> XAtPC
                  [] OTHER -> -1
    IN  { U16(c8.indexRegister + k) : k \in 0 .. last }

\* C37 as stated: every address a cycle of Run reaches through the index
\* register, in DXYN, FX33, FX55 and FX65, is within 0..4095
C37_IndexInRange ==
    [][ClockStep => \A a \in IndexedCells : a < memorySize]_vars

\* C38 as stated: whenever a cycle of Run executes EX9E or EXA1, VX <= 15
C38_KeyInRange ==
    [][(ClockStep /\ Executes({"opEX9E", "opEXA1"})) =>
          c8.registers[XAtPC] <= 15]_vars

\* The machine after an input refresh that has reported quit
Stopped == [c8 EXCEPT !.keyPad = polled'.keyPad, !.running = FALSE]

\* C39: the clock step whose input refresh reports quit still runs its
\* cycle, on the machine with running already false: the instruction at
\* programCounter is fetched and executed, running stays false, and the
\* loop is left by the next step, which changes nothing of the machine; no
\* further cycle runs.
C39_QuitIterationCycles ==
    [][/\ (ClockStep /\ polled'.quit) =>
             /\ \E rnd \in RandomBytes \cup {0} : c8' = cycle(Stopped, rnd)
             /\ c8.programCounter <= 4094 => c8'.opcode = OpcodeAtPC
             /\ ~c8'.running
             /\ phase' \in {"loop", "panic"}
       /\ (phase = "loop" /\ ~c8.running) =>
             /\ phase' = "returned"
             /\ c8' = c8]_vars

\* Quit was reported in the first iteration: LD V0, 0x12 has still been
\* executed, and the loop has not been left yet
C39_Witness ==
    /\ rom = romLd
    /\ phase = "loop"
    /\ polled.quit
    /\ ~c8.running
    /\ c8.opcode = \h6012
    /\ c8.registers[0] = \h12
    /\ c8.programCounter = \h202

\* A direct call of cycle with both bytes of the opcode in memory
FetchStep == ExecStep /\ c8.programCounter <= 4094

\* The machine after a cycle that has changed nothing but opcode and
\* programCounter, which has moved by step
Moved(step) ==
    [c8 EXCEPT !.opcode = OpcodeAtPC,
               !.programCounter = c8.programCounter + step]

\* C40: a cycle on 5XYn or 9XYn does, for every n, what 5XY0 or 9XY0 does:
\* it skips the next instruction when VX = VY, or VX # VY, and changes
\* nothing else; a cycle on 0Nkk clears the frame buffer when kk = 0xE0 and
\* returns to the newest return address when kk = 0xEE, for every N; a
\* cycle on any other opcode with high nibble 0 finds no handler and
\* changes nothing but opcode and programCounter.
C40_DiscardedBits ==
    [][/\ (FetchStep /\ FamilyAtPC = 5) =>
             /\ Lookup(decoded') = "op5XY0"
             /\ c8' = Moved(IF ValueX = ValueY THEN 4 ELSE 2)
       /\ (FetchStep /\ FamilyAtPC = 9) =>
             /\ Lookup(decoded') = "op9XY0"
             /\ c8' = Moved(IF ValueX # ValueY THEN 4 ELSE 2)
       /\ (FetchStep /\ FamilyAtPC = 0 /\ KKAtPC = \hE0) =>
             /\ Lookup(decoded') = "op00E0"
             /\ c8' = [Moved(2) EXCEPT !.display = blankDisplay]
       /\ (FetchStep /\ FamilyAtPC = 0 /\ KKAtPC = \hEE
                    /\ c8.stackPointer \in 1 .. stackSize) =>
             /\ Lookup(decoded') = "op00EE"
             /\ c8' = [c8 EXCEPT
                         !.opcode = OpcodeAtPC,
                         !.stackPointer = c8.stackPointer - 1,
                         !.programCounter = c8.callStack[c8.stackPointer - 1]]
       /\ (FetchStep /\ FamilyAtPC = 0 /\ KKAtPC \notin {\hE0, \hEE}) =>
             /\ Lookup(decoded') = "nil"
             /\ c8' = Moved(2)]_vars

\* 0x0AEE has returned to the pending call's address, and the 0x0000 there
\* has been passed over as an unknown instruction
C40_Witness ==
    /\ phase = "done"
    /\ MemRead(start.memory, startAddress) = \h0A
    /\ MemRead(start.memory, startAddress + 1) = \hEE
    /\ start.stackPointer = 1
    /\ start.callStack[0] = \h300
    /\ c8.stackPointer = 0
    /\ c8.opcode = \h0000
    /\ c8.programCounter = \h302

\* C30: a cycle on 7XKK with X # 0xF leaves VX = (VX + KK) mod 256 and
\* changes no other register, VF included, also when VX + KK exceeds 255;
\* nothing else but opcode and programCounter changes.
C30_AddImmediate ==
    [][(ExecStep /\ FamilyAtPC = 7 /\ XAtPC # 15) =>
          c8' = [c8 EXCEPT
                   !.opcode = OpcodeAtPC,
                   !.programCounter = c8.programCounter + 2,
                   !.registers[XAtPC] = (ValueX + KKAtPC) % 256]]_vars

\* ADD V1, 0xFF with V1 = 0x02 has left V1 = 0x01 and VF as it was
C30_Witness ==
    /\ phase = "again"
    /\ c8.opcode = \h71FF
    /\ start.registers[1] = \h02
    /\ c8.registers[1] = \h01
    /\ start.registers[15] = \h02
    /\ c8.registers[15] = \h02

===========================================================================
